---------------------------- MODULE Spec2Model ----------------------------
(***************************************************************************)
(* Evidence store, relationship graph, correlation engine and docket       *)
(* linker of the time-entry generator (src/evidence_database.py,           *)
(* src/time_entry_app.py).                                                 *)
(*                                                                         *)
(* Conventions of the model                                                *)
(*  - Text (subject, body, text, event_type, memo) is a sequence of        *)
(*    one-character strings, so that lower(), startswith(), strip() and    *)
(*    the substring test are computed character by character.              *)
(*  - Identifiers (record ids, message ids, conversation ids, session      *)
(*    ids) are atomic strings; "" is the empty / missing value.            *)
(*  - An instant is a number of minutes; NoTimestamp stands for a NULL     *)
(*    timestamp.  ISO strings of one format order as their instants do.    *)
(*  - A confidence c in [0,1] is the integer c * ConfScale, which is exact *)
(*    for every quotient the code forms on whole minutes.                  *)
(***************************************************************************)
EXTENDS Integers, Sequences, FiniteSets, TLC

VARIABLES
    evidence,       \* table evidence: id -> [type, timestamp, data]
    relationships,  \* table evidence_relationships, in insertion order
    lastCall,       \* the latest call of the API: what it was given, what it answered
    inserts,        \* number of insert_evidence_items calls so far
    passes,         \* number of pass / query calls so far
    projects,       \* table projects, in insertion order
    held,           \* a record a caller fetched and holds (its own object)
    running,        \* the pass of a request in flight, and the writes it has left
    subject,        \* input of _normalize_email_subject (SpecNorm)
    subjectText,    \* the text the input was built from (SpecNorm)
    normalized,     \* result of _normalize_email_subject (SpecNorm)
    normPc          \* "idle" | "input" | "done" (SpecNorm)

vars == <<evidence, relationships, lastCall, inserts, passes, projects, held,
          running, subject, subjectText, normalized, normPc>>

storeVars == <<evidence, relationships, lastCall, inserts, passes, projects, held,
               running>>
appVars == <<projects, held, running>>
normVars == <<subject, subjectText, normalized, normPc>>

-----------------------------------------------------------------------------
(* Bounds of the model *)

MaxInserts == 2
MaxPasses == 2
MaxFaultPasses == 1
MaxPrefixes == 3
MaxAppCalls == 2
MaxSuggestCalls == 2

-----------------------------------------------------------------------------
(* Text *)

UpperChars == <<"A","B","C","D","E","F","G","H","I","J","K","L","M",
                "N","O","P","Q","R","S","T","U","V","W","X","Y","Z">>
LowerChars == <<"a","b","c","d","e","f","g","h","i","j","k","l","m",
                "n","o","p","q","r","s","t","u","v","w","x","y","z">>

LowerMap == [i \in 1..Len(UpperChars) |-> LowerChars[i]]
UpperIndex == [c \in {UpperChars[i] : i \in 1..Len(UpperChars)} |->
                  CHOOSE i \in 1..Len(UpperChars) : UpperChars[i] = c]

LowerChar(c) == IF c \in DOMAIN UpperIndex THEN LowerMap[UpperIndex[c]] ELSE c

\* str.lower()
Lower(s) == [i \in 1..Len(s) |-> LowerChar(s[i])]

\* str.startswith(p)
StartsWith(s, p) == Len(s) >= Len(p) /\ SubSeq(s, 1, Len(p)) = p

\* s[n:]
Drop(s, n) == SubSeq(s, n + 1, Len(s))

IsSpace(c) == c = " "

RECURSIVE LStrip(_)
LStrip(s) == IF s # <<>> /\ IsSpace(Head(s)) THEN LStrip(Tail(s)) ELSE s

RECURSIVE RStrip(_)
RStrip(s) ==
    IF s # <<>> /\ IsSpace(s[Len(s)]) THEN RStrip(SubSeq(s, 1, Len(s) - 1)) ELSE s

\* str.strip()
Strip(s) == RStrip(LStrip(s))

\* sub in s
Contains(s, sub) ==
    \E i \in 0..(Len(s) - Len(sub)) : SubSeq(s, i + 1, i + Len(sub)) = sub

\* prefixes = ['re:', 'fwd:', 'fw:', 'response:']
prefixes == << <<"r","e",":">>,
               <<"f","w","d",":">>,
               <<"f","w",":">>,
               <<"r","e","s","p","o","n","s","e",":">> >>

\* while normalized.startswith(prefix): normalized = normalized[len(prefix):].strip()
RECURSIVE StripWhile(_, _)
StripWhile(s, p) ==
    IF StartsWith(s, p) THEN StripWhile(Strip(Drop(s, Len(p))), p) ELSE s

\* for prefix in prefixes: <while loop>   (one sweep over the list, in order)
RECURSIVE SweepPrefixes(_, _)
SweepPrefixes(s, i) ==
    IF i > Len(prefixes) THEN s
    ELSE SweepPrefixes(StripWhile(s, prefixes[i]), i + 1)

_normalize_email_subject(s) ==
    IF s = <<>> THEN <<>> ELSE SweepPrefixes(Lower(s), 1)


-----------------------------------------------------------------------------
(* Instants and confidences *)

Day == 24 * 60

NoTimestamp == 0 - 1     \* NULL / None
BadTimestamp == 0 - 2    \* a string pd.to_datetime cannot parse (input only)

ConfScale == 7 * 7200

\* the literals of identify_relationships and _calculate_relevance
ConfReply == ConfScale                        \* 1.0
ConfReference == (9 * ConfScale) \div 10      \* 0.9
ConfConversation == (9 * ConfScale) \div 10   \* 0.9
ConfChat == ConfScale                         \* 1.0
ConfSubjectFloor == ConfScale \div 2          \* max(0.5, ...)
DefaultThreshold == (7 * ConfScale) \div 10   \* confidence_threshold = 0.7
ScoreType == ConfScale \div 2                 \* score += 0.5
ScoreMemoHeavy == ConfScale \div 2             \* variant: the memo weighs 0.5
ScoreMemo == (3 * ConfScale) \div 10          \* score += 0.3
ScoreTime == ConfScale \div 5                 \* 0.2 * (...)
RelevanceThreshold == (6 * ConfScale) \div 10 \* relevance_score >= 0.6

SubjectWindowDays == 7
CallWindowMinutes == 30
DocketDaysBefore == 3
DocketDaysAfter == 1
RelevanceHours == 24

Max(a, b) == IF a >= b THEN a ELSE b
Min(a, b) == IF a <= b THEN a ELSE b
Abs(a) == IF a < 0 THEN 0 - a ELSE a

-----------------------------------------------------------------------------
(* Evidence items *)

\* a text field stored as JSON null (None once loaded)
NullText == <<"null">>

Blank(id, type, ts) ==
    [id |-> id, type |-> type, timestamp |-> ts,
     message_id |-> "", in_reply_to |-> "", references |-> <<>>,
     conversation_id |-> "", subject |-> <<>>, body |-> <<>>,
     chat_session |-> "", text |-> <<>>, event_type |-> <<>>, memo |-> <<>>,
     contact |-> "", contact_email |-> ""]

Email(id, ts, mid, irt, refs, conv, subj, body) ==
    [Blank(id, "email", ts) EXCEPT
        !.message_id = mid, !.in_reply_to = irt, !.references = refs,
        !.conversation_id = conv, !.subject = subj, !.body = body]

Sms(id, ts, session, text) ==
    [Blank(id, "sms", ts) EXCEPT !.chat_session = session, !.text = text]

Docket(id, ts, etype, memo) ==
    [Blank(id, "docket", ts) EXCEPT !.event_type = etype, !.memo = memo]

PhoneCall(id, ts) == Blank(id, "phone_call", ts)

\* texts used by the ingested files
TxUpdate == <<"U","p","d","a","t","e">>
TxRe == <<"R","E",":"," ">>
TxFwdRe == <<"F","w","d",":"," ","R","e",":"," ">>
TxReFwd == <<"R","e",":"," ","F","W",":"," ">>
TxHearing == <<"H","e","a","r","i","n","g">>
TxStatus == <<"s","t","a","t","u","s">>
TxTheHearing == <<"t","h","e"," ","h","e","a","r","i","n","g">>
TxHearingStatus == <<"H","E","A","R","I","N","G"," ","S","t","a","t","u","s">>
TxStatusOnly == <<"s","t","a","t","u","s"," ","o","k">>
TxMotion == <<"M","o","t","i","o","n">>

Base == 10 * Day

\* one ingested file each (the list insert_evidence_items is given)
BatchThread ==
    << Email("e1", Base, "m1", "", <<>>, "c1", TxUpdate, TxTheHearing),
       Email("e2", Base + 2 * Day, "m2", "m1", <<"m1">>, "c1",
             TxRe \o TxUpdate, <<>>),
       Email("e3", Base + 9 * Day, "m3", "m9", <<"m1", " ", "m2", " ", "m9">>, "",
             TxReFwd \o TxUpdate, <<>>) >>

BatchSelf ==
    << Email("e4", Base + Day, "m4", "m4", <<"m4">>, "c1",
             TxFwdRe \o TxUpdate, TxStatusOnly) >>

BatchSms ==
    << Sms("s1", Base + 20, "chatA", TxTheHearing),
       Sms("s2", Base + 5, "chatA", <<>>),
       Sms("s3", Base + 31, "chatA", <<>>),
       Sms("s4", Base + 10, "chatB", <<>>),
       Sms("s5", Base + 7, "chatB", <<>>),
       Sms("s6", Base + 8, "", <<>>) >>

BatchNoTs ==
    << Sms("n1", BadTimestamp, "chatA", TxHearing),
       Email("n2", NoTimestamp, "m5", "m1", <<>>, "c1", TxUpdate, TxHearing) >>

BatchCalls ==
    << PhoneCall("p1", Base),
       PhoneCall("p2", NoTimestamp),
       PhoneCall("p3", Base + 2 * Day - 30),
       Sms("q1", Base + 6, "", <<>>),
       Email("q2", Base + 15, "", "", <<>>, "", <<>>, <<>>) >>

BatchDocket ==
    << Docket("d1", Base + Day, TxHearing, TxStatus),
       Docket("d2", NoTimestamp, TxHearing, <<>>),
       Email("x1", Base + Day - 120, "", "", <<>>, "", TxHearingStatus, <<>>),
       Sms("x2", Base + Day + 12 * 60, "", TxHearing),
       Sms("x3", Base + Day, "", TxStatusOnly),
       Docket("d3", Base + 4 * Day, TxMotion, <<>>),
       Email("x4", Base + Day + 60, "", "", <<>>, "", <<>>, TxTheHearing) >>

\* a second ingestion of a record already stored (same id, other data)
BatchUpdate ==
    << Email("e2", BadTimestamp, "m2", "m1", <<>>, "c2", TxRe \o TxUpdate, <<>>) >>

\* files ingested for a case with a long email thread and a docket
TxBudget == <<"B","u","d","g","e","t">>
TxBudgetUpper == <<"B","U","D","G","E","T">>
TxPlan == <<"P","l","a","n">>
TxFwd == <<"F","w","d",":"," ">>
TxReRe == <<"R","e",":"," ","R","e",":"," ">>
TxMotionHearing == <<"M","o","t","i","o","n"," ","H","e","a","r","i","n","g">>
TxMotionHearingLower == <<" ","m","o","t","i","o","n"," ","h","e","a","r","i","n","g">>
TxDeposition == <<" ","D","e","p","o","s","i","t","i","o","n"," ","n","o","t","i","c","e"," ">>
TxTrial == <<"T","R","I","A","L">>
TxOrder == <<"O","r","d","e","r">>
TxAnswer == <<"A","n","s","w","e","r">>

ThreadMail(id, ts, subj) == Email(id, ts, "", "", <<>>, "", subj, <<>>)

BatchBudget ==
    << ThreadMail("b1", Base + 3 * Day, TxRe \o TxBudget),
       ThreadMail("b2", Base, TxBudget),
       ThreadMail("b3", NoTimestamp, TxFwd \o TxBudget),
       ThreadMail("b4", Base + Day, TxReRe \o TxBudget),
       ThreadMail("b5", Base + Day, TxBudgetUpper) >>

BatchLate ==
    << ThreadMail("b6", Base + 20 * Day, TxRe \o TxBudget),
       ThreadMail("b7", Base + 2 * Day, TxFwdRe \o TxBudget),
       ThreadMail("f5", Base + 2 * Day, TxRe \o TxPlan),
       ThreadMail("b8", Base + 2 * Day, <<>>) >>

BatchFour ==
    << ThreadMail("f1", Base + 4 * Day, TxPlan),
       ThreadMail("f2", Base + Day, TxPlan),
       ThreadMail("f3", Base + 2 * Day, TxFwd \o TxPlan),
       ThreadMail("f4", Base + 3 * Day, TxPlan) >>

BatchCourt ==
    << Docket("k1", Base + 5 * Day, TxMotionHearing, <<>>),
       Docket("k2", Base + 2 * Day, TxDeposition, <<>>),
       Docket("k3", NoTimestamp, TxTrial, <<>>),
       Docket("k4", Base, TxOrder, <<>>),
       Docket("k5", Base + Day, TxMotionHearingLower, <<>>),
       Docket("k6", Base + 5 * Day, TxAnswer, <<>>) >>

ProjectBatches == {BatchBudget, BatchLate, BatchFour, BatchCourt, BatchDocket}

\* records on which fields are absent (left at their default) or null
BatchBare ==
    << Blank("g1", "email", Base + Day),
       Blank("g2", "sms", Base + Day + 30),
       Blank("g3", "docket", Base + Day),
       Blank("g4", "phone_call", Base + Day),
       Blank("g5", "email", NoTimestamp) >>

BatchNullMemo ==
    << Docket("h1", Base + Day, TxHearing, NullText),
       Sms("h2", Base + Day + 60, "chatA", TxHearing) >>

BatchNullType ==
    << Docket("h3", Base + 30 * Day, NullText, <<>>) >>

BatchNullText ==
    << Sms("h4", Base + Day + 90, "", NullText),
       Email("h5", Base + 40 * Day, "", "", <<>>, "", NullText, NullText) >>

ShapeBatches == {BatchBare, BatchNullMemo, BatchNullType, BatchNullText, BatchDocket}

Batches == {BatchThread, BatchSelf, BatchSms, BatchNoTs, BatchCalls,
            BatchDocket, BatchUpdate}

Thresholds == {0, DefaultThreshold, ConfScale}

-----------------------------------------------------------------------------
(* Evidence store *)

\* insert_evidence_items: timestamp conversion of one item
ConvertTimestamp(ts) == IF ts = BadTimestamp THEN NoTimestamp ELSE ts

\* insert_evidence_items: the row written for one item
RowOf(item) ==
    LET ts == ConvertTimestamp(item.timestamp) IN
    [type |-> item.type, timestamp |-> ts,
     data |-> [item EXCEPT !.timestamp = ts]]

\* INSERT OR REPLACE INTO evidence, one item after the other
RECURSIVE InsertAll(_, _)
InsertAll(table, items) ==
    IF items = <<>> THEN table
    ELSE LET item == Head(items)
             row == RowOf(item)
             next == [i \in (DOMAIN table) \cup {item.id} |->
                         IF i = item.id THEN row ELSE table[i]]
         IN InsertAll(next, Tail(items))


\* a filter of query_evidence: "" / NoBound stand for a key the dict lacks
NoBound == 0 - 1
NoFilters == [type |-> "", start_date |-> NoBound, end_date |-> NoBound]

\* variant: the bounds compared with > and <
SelectedExclusive(row, f) ==
    /\ f.type # "" => row.type = f.type
    /\ f.start_date # NoBound =>
          (row.timestamp # NoTimestamp /\ row.timestamp > f.start_date)
    /\ f.end_date # NoBound =>
          (row.timestamp # NoTimestamp /\ row.timestamp < f.end_date)

\* the WHERE clause of query_evidence (a comparison with NULL selects nothing)
Selected(row, f) ==
    /\ f.type # "" => row.type = f.type
    /\ IF f.start_date # NoBound /\ f.end_date # NoBound
       THEN /\ row.timestamp # NoTimestamp
            /\ row.timestamp >= f.start_date
            /\ row.timestamp <= f.end_date
       ELSE IF f.start_date # NoBound
       THEN row.timestamp # NoTimestamp /\ row.timestamp >= f.start_date
       ELSE IF f.end_date # NoBound
       THEN row.timestamp # NoTimestamp /\ row.timestamp <= f.end_date
       ELSE TRUE

\* ORDER BY timestamp ASC: NULL sorts first, rows of equal timestamp come in
\* an order SQL leaves open
RECURSIVE OrderByTimestamp(_, _)
OrderByTimestamp(table, ids) ==
    IF ids = {} THEN {<<>>}
    ELSE LET least == {i \in ids :
                          \A j \in ids : table[i].timestamp <= table[j].timestamp}
         IN UNION {{<<i>> \o rest : rest \in OrderByTimestamp(table, ids \ {i})} :
                   i \in least}

\* query_evidence(filters): the lists of records the call may return
query_evidence(table, f) ==
    LET ids == {i \in DOMAIN table : Selected(table[i], f)}
    IN {[k \in 1..Len(o) |-> table[o[k]].data] : o \in OrderByTimestamp(table, ids)}

-----------------------------------------------------------------------------
(* Relationship graph *)

Edge(a, b, t, c) ==
    [evidence_id_1 |-> a, evidence_id_2 |-> b, relationship_type |-> t,
     confidence |-> c]

\* variant: an edge already in the table is not inserted again
link_unless_present(table, e) ==
    IF \E k \in 1..Len(table) : table[k] = e THEN table ELSE Append(table, e)

\* INSERT INTO evidence_relationships
link_related_evidence(table, e) == Append(table, e)

RECURSIVE WriteAll(_, _)
WriteAll(table, edges) ==
    IF edges = <<>> THEN table
    ELSE WriteAll(link_related_evidence(table, Head(edges)), Tail(edges))

\* variant: the object the store keeps is handed out itself
cached_object(data) == [data |-> data, shared |-> TRUE]

\* json.loads(row['data']): a new object each time, never the stored one
json_loads(data) == [data |-> data, shared |-> FALSE]

\* EvidenceDatabase.get_evidence_by_id: the loaded record, or None
get_evidence_by_id(table, evidence_id) ==
    IF evidence_id \in DOMAIN table
    THEN [found |-> TRUE] @@ json_loads(table[evidence_id].data)
    ELSE [found |-> FALSE, data |-> Blank("", "", NoTimestamp), shared |-> FALSE]

\* variant: only the rows with r.evidence_id_1 = ? are joined
get_related_one_way(table, edges, evidence_id) ==
    {table[i].data : i \in {j \in DOMAIN table :
        \E k \in 1..Len(edges) :
            edges[k].evidence_id_1 = evidence_id /\ edges[k].evidence_id_2 = j}}

\* EvidenceDatabase.get_related_evidence: both joins, UNION keeps distinct data
get_related_evidence(table, edges, evidence_id) ==
    {table[i].data : i \in {j \in DOMAIN table :
        \E k \in 1..Len(edges) :
            edges[k].evidence_id_1 = evidence_id /\ edges[k].evidence_id_2 = j}}
    \cup
    {table[i].data : i \in {j \in DOMAIN table :
        \E k \in 1..Len(edges) :
            edges[k].evidence_id_2 = evidence_id /\ edges[k].evidence_id_1 = j}}

RECURSIVE Flatten(_)
Flatten(ss) == IF ss = <<>> THEN <<>> ELSE Head(ss) \o Flatten(Tail(ss))

-----------------------------------------------------------------------------
(* Correlation engine: identify_relationships *)

\* "if x in item and item[x]"
Truthy(v) == v # ""
TruthyText(v) == v # <<>> /\ v # NullText

\* email_by_message_id: a later email of the list overwrites an earlier one
HasMessageId(all, mid) ==
    \E k \in 1..Len(all) :
        all[k].type = "email" /\ Truthy(all[k].message_id) /\ all[k].message_id = mid

\* variant: the first email of the list carrying the id is kept
EmailByMessageIdFirst(all, mid) ==
    LET ks == {k \in 1..Len(all) :
                  all[k].type = "email" /\ Truthy(all[k].message_id)
                  /\ all[k].message_id = mid}
    IN all[CHOOSE k \in ks : \A j \in ks : k <= j]

EmailByMessageId(all, mid) ==
    LET ks == {k \in 1..Len(all) :
                  all[k].type = "email" /\ Truthy(all[k].message_id)
                  /\ all[k].message_id = mid}
    IN all[CHOOSE k \in ks : \A j \in ks : j <= k]

\* email_by_subject[normalized_subject]
EmailBySubject(all, key) ==
    SelectSeq(all, LAMBDA o : o.type = "email" /\ TruthyText(o.subject)
                              /\ _normalize_email_subject(o.subject) = key)

\* the keys of sms_by_session, in the order they were first inserted
RECURSIVE SessionKeys(_, _)
SessionKeys(all, seen) ==
    IF all = <<>> THEN <<>>
    ELSE LET o == Head(all) IN
         IF o.type = "sms" /\ Truthy(o.chat_session) /\ o.chat_session \notin seen
         THEN <<o.chat_session>> \o SessionKeys(Tail(all), seen \cup {o.chat_session})
         ELSE SessionKeys(Tail(all), seen)

SmsBySession(all, session) ==
    SelectSeq(all, LAMBDA o : o.type = "sms" /\ Truthy(o.chat_session)
                              /\ o.chat_session = session)

\* _parse_timestamp: None for a missing timestamp
_parse_timestamp(ts) == ts

\* variant: a missing timestamp counts as no distance
time_difference_missing_as_zero(item1, item2) ==
    IF item1.timestamp # NoTimestamp /\ item2.timestamp # NoTimestamp
    THEN Abs(item1.timestamp - item2.timestamp)
    ELSE 0

\* _calculate_time_difference, in minutes; NoTimestamp when it returns None
_calculate_time_difference(item1, item2) ==
    LET time1 == _parse_timestamp(item1.timestamp)
        time2 == _parse_timestamp(item2.timestamp)
    IN IF time1 # NoTimestamp /\ time2 # NoTimestamp
       THEN Abs(time1 - time2)
       ELSE NoTimestamp

\* references.split()
Split(refs) == SelectSeq(refs, LAMBDA x : ~IsSpace(x))

\* variant: a reply is linked only when it is not older than its parent
ReplyEdgesInTimeOrder(all, item) ==
    IF /\ Truthy(item.in_reply_to) /\ HasMessageId(all, item.in_reply_to)
       /\ item.timestamp # NoTimestamp
       /\ EmailByMessageId(all, item.in_reply_to).timestamp <= item.timestamp
    THEN <<Edge(EmailByMessageId(all, item.in_reply_to).id, item.id,
                "reply_to", ConfReply)>>
    ELSE <<>>

\* Link by In-Reply-To
ReplyEdges(all, item) ==
    IF Truthy(item.in_reply_to) /\ HasMessageId(all, item.in_reply_to)
    THEN <<Edge(EmailByMessageId(all, item.in_reply_to).id, item.id,
                "reply_to", ConfReply)>>
    ELSE <<>>

\* variant: the list is read up to the first id that does not resolve
ReferenceEdgesUntilUnresolved(all, item) ==
    IF TruthyText(item.references)
    THEN LET ref_ids == Split(item.references)
             unresolved == {k \in 1..Len(ref_ids) : ~HasMessageId(all, ref_ids[k])}
             last == IF unresolved = {} THEN Len(ref_ids)
                     ELSE (CHOOSE k \in unresolved : \A j \in unresolved : k <= j) - 1
         IN [k \in 1..last |->
                Edge(EmailByMessageId(all, ref_ids[k]).id, item.id,
                     "reference", ConfReference)]
    ELSE <<>>

\* Link by References
ReferenceEdges(all, item) ==
    IF TruthyText(item.references)
    THEN LET ref_ids == Split(item.references) IN
         Flatten([k \in 1..Len(ref_ids) |->
             IF HasMessageId(all, ref_ids[k])
             THEN <<Edge(EmailByMessageId(all, ref_ids[k]).id, item.id,
                         "reference", ConfReference)>>
             ELSE <<>>])
    ELSE <<>>

\* variant: a pair of one conversation is linked once, from the email that
\* comes first in the list
ConversationEdgesForward(all, item) ==
    IF Truthy(item.conversation_id)
    THEN LET at == CHOOSE k \in 1..Len(all) : all[k].id = item.id IN
         Flatten([k \in 1..Len(all) |->
             IF /\ k > at
                /\ all[k].type = "email"
                /\ all[k].conversation_id = item.conversation_id
             THEN <<Edge(item.id, all[k].id, "conversation", ConfConversation)>>
             ELSE <<>>])
    ELSE <<>>

\* variant: any record carrying the conversation id is linked
ConversationEdgesAnyType(all, item) ==
    IF Truthy(item.conversation_id)
    THEN Flatten([k \in 1..Len(all) |->
             IF /\ all[k].id # item.id
                /\ all[k].conversation_id = item.conversation_id
             THEN <<Edge(item.id, all[k].id, "conversation", ConfConversation)>>
             ELSE <<>>])
    ELSE <<>>

\* Link by conversation_id
ConversationEdges(all, item) ==
    IF Truthy(item.conversation_id)
    THEN Flatten([k \in 1..Len(all) |->
             IF /\ all[k].id # item.id
                /\ all[k].type = "email"
                /\ all[k].conversation_id = item.conversation_id
             THEN <<Edge(item.id, all[k].id, "conversation", ConfConversation)>>
             ELSE <<>>])
    ELSE <<>>

\* variant: the quotient added instead of subtracted
SubjectConfidencePlus(minutes) ==
    Max(ConfSubjectFloor,
        ConfScale + (ConfScale * minutes) \div (SubjectWindowDays * Day))

\* max(0.5, 1.0 - (time_diff / 7)), time_diff in days
SubjectConfidence(minutes) ==
    Max(ConfSubjectFloor,
        ConfScale - (ConfScale * minutes) \div (SubjectWindowDays * Day))

SubjectEdges(all, item, threshold) ==
    IF TruthyText(item.subject)
    THEN LET subject_matches ==
                 EmailBySubject(all, _normalize_email_subject(item.subject))
         IN Flatten([k \in 1..Len(subject_matches) |->
                LET other == subject_matches[k]
                    time_diff == _calculate_time_difference(item, other)
                IN IF /\ other.id # item.id
                      /\ time_diff # NoTimestamp
                      /\ time_diff < SubjectWindowDays * Day
                      /\ SubjectConfidence(time_diff) >= threshold
                   THEN <<Edge(item.id, other.id, "subject",
                               SubjectConfidence(time_diff))>>
                   ELSE <<>>])
    ELSE <<>>

\* the first loop over all_evidence
EmailEdges(all, threshold) ==
    Flatten([k \in 1..Len(all) |->
        IF all[k].type = "email"
        THEN ReplyEdges(all, all[k]) \o ReferenceEdges(all, all[k])
             \o ConversationEdges(all, all[k])
             \o SubjectEdges(all, all[k], threshold)
        ELSE <<>>])

\* sorted(messages, key=lambda x: x.get('timestamp', '')) compares None with
\* a string, or with None, as soon as there are two keys: TypeError
SortRaises(messages) ==
    Len(messages) >= 2
    /\ \E k \in 1..Len(messages) : messages[k].timestamp = NoTimestamp

\* a stable sort by timestamp (insertion sort)
RECURSIVE InsertSorted(_, _)
InsertSorted(sorted, m) ==
    IF sorted = <<>> THEN <<m>>
    ELSE IF sorted[Len(sorted)].timestamp <= m.timestamp THEN Append(sorted, m)
    ELSE Append(InsertSorted(SubSeq(sorted, 1, Len(sorted) - 1), m),
                sorted[Len(sorted)])

RECURSIVE SortedByTimestamp(_)
SortedByTimestamp(messages) ==
    IF messages = <<>> THEN <<>>
    ELSE InsertSorted(SortedByTimestamp(SubSeq(messages, 1, Len(messages) - 1)),
                      messages[Len(messages)])

ChatEdges(messages) ==
    LET sorted_messages == SortedByTimestamp(messages) IN
    [i \in 1..(Len(sorted_messages) - 1) |->
        Edge(sorted_messages[i].id, sorted_messages[i + 1].id,
             "chat_sequence", ConfChat)]

\* the loop over sms_by_session.items(): the edges written, and whether a
\* sort raised (which ends the pass there)
RECURSIVE SmsPhase(_, _)
SmsPhase(all, sessions) ==
    IF sessions = <<>> THEN [writes |-> <<>>, raises |-> FALSE]
    ELSE LET messages == SmsBySession(all, Head(sessions)) IN
         IF SortRaises(messages) THEN [writes |-> <<>>, raises |-> TRUE]
         ELSE LET rest == SmsPhase(all, Tail(sessions)) IN
              [writes |-> ChatEdges(messages) \o rest.writes,
               raises |-> rest.raises]

\* 1.0 - (diff_minutes / 30)
CallConfidence(diff_minutes) ==
    ConfScale - (ConfScale * diff_minutes) \div CallWindowMinutes

CallEdges(all, threshold) ==
    Flatten([k \in 1..Len(all) |->
        LET item == all[k]
            call_time == _parse_timestamp(item.timestamp)
        IN IF item.type = "phone_call" /\ call_time # NoTimestamp
           THEN Flatten([j \in 1..Len(all) |->
                    LET other == all[j]
                        other_time == _parse_timestamp(other.timestamp)
                    IN IF /\ other.type \in {"email", "sms"}
                          /\ other_time # NoTimestamp
                          /\ call_time < other_time
                          /\ other_time - call_time <= CallWindowMinutes
                          /\ CallConfidence(other_time - call_time) >= threshold
                       THEN <<Edge(item.id, other.id, "call_followed_by",
                                   CallConfidence(other_time - call_time))>>
                       ELSE <<>>])
           ELSE <<>>])

\* the calls of link_related_evidence identify_relationships makes, in order,
\* and whether the pass raises after them
IdentifyPlan(all, threshold) ==
    LET email == EmailEdges(all, threshold)
        sms == SmsPhase(all, SessionKeys(all, {}))
    IN IF sms.raises
       THEN [writes |-> email \o sms.writes, raises |-> TRUE,
             error |-> "TypeError"]
       ELSE [writes |-> email \o sms.writes \o CallEdges(all, threshold),
             raises |-> FALSE, error |-> ""]


-----------------------------------------------------------------------------
(* Docket linker: associate_evidence_with_docket_events *)

\* variant: the whole 0.2 for any candidate within 24 hours
TimeScoreFlat(minutes) == ScoreTime

\* 0.2 * (1 - (hours_diff / 24))
TimeScore(minutes) ==
    ScoreTime - (ScoreTime * minutes) \div (RelevanceHours * 60)

_calculate_relevance(docket, ev) ==
    LET docket_type == Lower(docket.event_type)
        docket_memo == Lower(docket.memo)
        body == Lower(ev.body)
        subj == Lower(ev.subject)
        text == Lower(ev.text)
        typeScore ==
            IF ev.type = "email"
            THEN IF TruthyText(docket_type)
                    /\ (Contains(body, docket_type) \/ Contains(subj, docket_type))
                 THEN ScoreType ELSE 0
            ELSE IF ev.type = "sms"
            THEN IF TruthyText(docket_type) /\ Contains(text, docket_type)
                 THEN ScoreType ELSE 0
            ELSE 0
        memoScore ==
            IF ev.type = "email"
            THEN IF TruthyText(docket_memo)
                    /\ (Contains(body, docket_memo) \/ Contains(subj, docket_memo))
                 THEN ScoreMemo ELSE 0
            ELSE IF ev.type = "sms"
            THEN IF TruthyText(docket_memo) /\ Contains(text, docket_memo)
                 THEN ScoreMemo ELSE 0
            ELSE 0
        evidence_time == _parse_timestamp(ev.timestamp)
        docket_time == _parse_timestamp(docket.timestamp)
        timeScore ==
            IF evidence_time # NoTimestamp /\ docket_time # NoTimestamp
               /\ Abs(evidence_time - docket_time) <= RelevanceHours * 60
            THEN TimeScore(Abs(evidence_time - docket_time))
            ELSE 0
    IN Min(ConfScale, typeScore + memoScore + timeScore)

\* sorted(related_items, key=lambda x: x[1], reverse=True): stable
RECURSIVE InsertByScore(_, _)
InsertByScore(sorted, m) ==
    IF sorted = <<>> THEN <<m>>
    ELSE IF sorted[Len(sorted)].score >= m.score THEN Append(sorted, m)
    ELSE Append(InsertByScore(SubSeq(sorted, 1, Len(sorted) - 1), m),
                sorted[Len(sorted)])

RECURSIVE SortedByScore(_)
SortedByScore(items) ==
    IF items = <<>> THEN <<>>
    ELSE InsertByScore(SortedByScore(SubSeq(items, 1, Len(items) - 1)),
                       items[Len(items)])

\* variant: every timestamped candidate is scored, wherever it lies
RelatedItemsAnyTime(docket, other_evidence) ==
    Flatten([k \in 1..Len(other_evidence) |->
        LET ev == other_evidence[k] IN
        IF /\ _parse_timestamp(ev.timestamp) # NoTimestamp
           /\ _calculate_relevance(docket, ev) >= RelevanceThreshold
        THEN <<[ev |-> ev, score |-> _calculate_relevance(docket, ev)]>>
        ELSE <<>>])

\* the candidates of one docket that reach the threshold, with their score
RelatedItems(docket, other_evidence) ==
    LET docket_time == _parse_timestamp(docket.timestamp)
        three_days_before == docket_time - DocketDaysBefore * Day
        one_day_after == docket_time + DocketDaysAfter * Day
    IN Flatten([k \in 1..Len(other_evidence) |->
           LET ev == other_evidence[k]
               evidence_time == _parse_timestamp(ev.timestamp)
           IN IF /\ evidence_time # NoTimestamp
                 /\ three_days_before <= evidence_time
                 /\ evidence_time <= one_day_after
                 /\ _calculate_relevance(docket, ev) >= RelevanceThreshold
              THEN <<[ev |-> ev, score |-> _calculate_relevance(docket, ev)]>>
              ELSE <<>>])

DocketEdges(docket, other_evidence) ==
    IF _parse_timestamp(docket.timestamp) = NoTimestamp THEN <<>>
    ELSE LET related == SortedByScore(RelatedItems(docket, other_evidence)) IN
         [k \in 1..Len(related) |->
             Edge(docket.id, related[k].ev.id, "related_to_docket",
                  related[k].score)]

\* _calculate_relevance calls .lower() on the event type and the memo of the
\* docket and on the body and subject, or the text, of the candidate: a field
\* holding None raises AttributeError
RelevanceRaises(docket, ev) ==
    \/ docket.event_type = NullText
    \/ docket.memo = NullText
    \/ ev.type = "email" /\ (ev.body = NullText \/ ev.subject = NullText)
    \/ ev.type = "sms" /\ ev.text = NullText

\* the loop over the candidates of one docket raises
DocketRaises(docket, other_evidence) ==
    LET docket_time == _parse_timestamp(docket.timestamp) IN
    /\ docket_time # NoTimestamp
    /\ \E k \in 1..Len(other_evidence) :
          LET evidence_time == _parse_timestamp(other_evidence[k].timestamp) IN
          /\ evidence_time # NoTimestamp
          /\ docket_time - DocketDaysBefore * Day <= evidence_time
          /\ evidence_time <= docket_time + DocketDaysAfter * Day
          /\ RelevanceRaises(docket, other_evidence[k])

\* the calls of link_related_evidence the docket pass makes, in order, and
\* whether the pass raises after them: the dockets before the first one whose
\* candidates raise have been linked
DocketPlan(docket_events, all) ==
    LET other_evidence == SelectSeq(all, LAMBDA e : e.type # "docket")
        raising == {k \in 1..Len(docket_events) :
                       DocketRaises(docket_events[k], other_evidence)}
        done == IF raising = {} THEN Len(docket_events)
                ELSE (CHOOSE k \in raising : \A j \in raising : k <= j) - 1
    IN [writes |-> Flatten([k \in 1..done |->
                       DocketEdges(docket_events[k], other_evidence)]),
        raises |-> raising # {},
        error |-> IF raising # {} THEN "AttributeError" ELSE ""]

-----------------------------------------------------------------------------
(* Project clusterer: suggest_projects *)

KwMotion == <<"m","o","t","i","o","n">>
KwOpposition == <<"o","p","p","o","s","i","t","i","o","n">>
KwReply == <<"r","e","p","l","y">>
KwDiscovery == <<"d","i","s","c","o","v","e","r","y">>
KwDeposition == <<"d","e","p","o","s","i","t","i","o","n">>
KwRequest == <<"r","e","q","u","e","s","t">>
KwProduction == <<"p","r","o","d","u","c","t","i","o","n">>
KwHearing == <<"h","e","a","r","i","n","g">>
KwTrial == <<"t","r","i","a","l">>
KwConference == <<"c","o","n","f","e","r","e","n","c","e">>
KwComplaint == <<"c","o","m","p","l","a","i","n","t">>
KwAnswer == <<"a","n","s","w","e","r">>
KwPetition == <<"p","e","t","i","t","i","o","n">>
KwFiling == <<"f","i","l","i","n","g">>

\* project_categories, in the order of the dict
project_categories ==
    << [category |-> KwMotion, keywords |-> <<KwMotion, KwOpposition, KwReply>>],
       [category |-> KwDiscovery,
        keywords |-> <<KwDiscovery, KwDeposition, KwRequest, KwProduction>>],
       [category |-> KwHearing, keywords |-> <<KwHearing, KwTrial, KwConference>>],
       [category |-> KwFiling, keywords |-> <<KwComplaint, KwAnswer, KwPetition>>] >>

\* len(emails) >= 5
ThreadThreshold == 5

\* subject[:30]
NameLength == 30

\* datetime.min, the sort key of a record without timestamp
DatetimeMin == 0 - 3

\* event_type.strip().lower()
clean_type(docket) == Lower(Strip(docket.event_type))

\* variant: only the first keyword of a category is looked for
MatchesFirstKeyword(key, keywords) == Contains(key, keywords[1])

\* any(keyword in key for keyword in keywords)
MatchesCategory(key, keywords) ==
    \E k \in 1..Len(keywords) : Contains(key, keywords[k])

\* the keys of a defaultdict(list), in the order they were first inserted
RECURSIVE GroupKeys(_, _)
GroupKeys(keys, seen) ==
    IF keys = <<>> THEN <<>>
    ELSE IF Head(keys) \in seen THEN GroupKeys(Tail(keys), seen)
    ELSE <<Head(keys)>> \o GroupKeys(Tail(keys), seen \cup {Head(keys)})

\* the dockets of every group whose key names the category, group after group
CategoryDockets(docket_events, keywords) ==
    LET keys == GroupKeys([k \in 1..Len(docket_events) |->
                              clean_type(docket_events[k])], {})
    IN Flatten([k \in 1..Len(keys) |->
           IF MatchesCategory(keys[k], keywords)
           THEN SelectSeq(docket_events, LAMBDA d : clean_type(d) = keys[k])
           ELSE <<>>])

\* key=lambda x: self._parse_timestamp(x.get('timestamp')) or datetime.min
TimeOrMin(item) ==
    IF _parse_timestamp(item.timestamp) = NoTimestamp THEN DatetimeMin
    ELSE _parse_timestamp(item.timestamp)

RECURSIVE InsertByTimeOrMin(_, _)
InsertByTimeOrMin(sorted, m) ==
    IF sorted = <<>> THEN <<m>>
    ELSE IF TimeOrMin(sorted[Len(sorted)]) <= TimeOrMin(m) THEN Append(sorted, m)
    ELSE Append(InsertByTimeOrMin(SubSeq(sorted, 1, Len(sorted) - 1), m),
                sorted[Len(sorted)])

\* sorted(..., key=...): stable
RECURSIVE SortedByTimeOrMin(_)
SortedByTimeOrMin(items) ==
    IF items = <<>> THEN <<>>
    ELSE InsertByTimeOrMin(SortedByTimeOrMin(SubSeq(items, 1, Len(items) - 1)),
                           items[Len(items)])

\* the project dict of one sorted group
Project(kind, label, members) ==
    [kind |-> kind, name |-> label,
     start_date |-> members[1].timestamp,
     end_date |-> members[Len(members)].timestamp,
     evidence_ids |-> [k \in 1..Len(members) |-> members[k].id]]

\* the loop over project_categories.items()
CategoryProjects(docket_events) ==
    Flatten([c \in 1..Len(project_categories) |->
        LET category_dockets ==
                CategoryDockets(docket_events, project_categories[c].keywords)
        IN IF category_dockets # <<>>
           THEN <<Project("category", project_categories[c].category,
                          SortedByTimeOrMin(category_dockets))>>
           ELSE <<>>])

\* subject_groups: the emails with a subject, by normalized subject
ThreadEmails(all_emails) ==
    SelectSeq(all_emails, LAMBDA e : TruthyText(e.subject))

ThreadGroup(all_emails, key) ==
    SelectSeq(ThreadEmails(all_emails),
              LAMBDA e : _normalize_email_subject(e.subject) = key)

\* variant: a thread needs more than five messages
IsThreadOverFive(emails) == Len(emails) > ThreadThreshold

\* if len(emails) >= 5
IsThread(emails) == Len(emails) >= ThreadThreshold

\* the loop over subject_groups.items()
ThreadProjects(all_emails) ==
    LET withSubject == ThreadEmails(all_emails)
        keys == GroupKeys([k \in 1..Len(withSubject) |->
                              _normalize_email_subject(withSubject[k].subject)], {})
    IN Flatten([k \in 1..Len(keys) |->
           LET emails == ThreadGroup(all_emails, keys[k]) IN
           IF IsThread(emails)
           THEN <<Project("thread", SubSeq(keys[k], 1, Min(NameLength, Len(keys[k]))),
                          SortedByTimeOrMin(emails))>>
           ELSE <<>>])

\* event_type.strip() on a docket whose event_type is None
SuggestRaises(docket_events) ==
    \E k \in 1..Len(docket_events) : docket_events[k].event_type = NullText

\* variant: the suggestions are also written to the projects table
suggest_projects_persisting(docket_events, all_emails, table) ==
    LET suggestions == CategoryProjects(docket_events) \o ThreadProjects(all_emails)
    IN [status |-> "returned", error |-> "", suggestions |-> suggestions,
        projects |-> table \o suggestions]

\* TimelineConstructor.suggest_projects: the list returned, and the projects
\* table after the call
suggest_projects(docket_events, all_emails, table) ==
    IF SuggestRaises(docket_events)
    THEN [status |-> "raised", error |-> "AttributeError", suggestions |-> <<>>,
          projects |-> table]
    ELSE [status |-> "returned", error |-> "",
          suggestions |-> CategoryProjects(docket_events)
                          \o ThreadProjects(all_emails),
          projects |-> table]

-----------------------------------------------------------------------------
(* A pass: the plan's writes go to the store one by one.  rejectAt = 0: the  *)
(* store accepts every write; rejectAt = k > 0: link_related_evidence raises *)
(* on the k-th write, and nothing in the pass catches it.                    *)

NoReturn == 0 - 1

RunPass(table, plan, rejectAt) ==
    LET done == IF rejectAt > 0 THEN rejectAt - 1 ELSE Len(plan.writes)
        status == IF rejectAt > 0 \/ plan.raises THEN "raised" ELSE "returned"
    IN [table |-> WriteAll(table, SubSeq(plan.writes, 1, done)),
        status |-> status,
        error |-> IF rejectAt > 0 THEN "PersistenceFailure"
                  ELSE IF plan.raises THEN plan.error ELSE "",
        ret |-> IF status = "returned" THEN done ELSE NoReturn,
        rejected |-> IF rejectAt > 0 THEN 1 ELSE 0,
        planned |-> Len(plan.writes)]

identify_relationships(table, all, threshold, rejectAt) ==
    RunPass(table, IdentifyPlan(all, threshold), rejectAt)

associate_evidence_with_docket_events(table, docket_events, all, rejectAt) ==
    RunPass(table, DocketPlan(docket_events, all), rejectAt)

\* variant: the count of the first pass alone is returned
build_timeline_first_count(table, all1, reject1, docket_events, all2, reject2) ==
    LET r1 == identify_relationships(table, all1, DefaultThreshold, reject1)
        r2 == associate_evidence_with_docket_events(r1.table, docket_events,
                                                    all2, reject2)
    IN IF r1.status = "raised" THEN r1
       ELSE [r2 EXCEPT !.ret = IF r2.status = "returned" THEN r1.ret ELSE NoReturn,
                       !.planned = r1.planned + r2.planned]

\* TimeEntryApp.build_timeline: both passes, the sum of their counts
build_timeline(table, all1, reject1, docket_events, all2, reject2) ==
    LET r1 == identify_relationships(table, all1, DefaultThreshold, reject1)
        r2 == associate_evidence_with_docket_events(r1.table, docket_events,
                                                    all2, reject2)
    IN IF r1.status = "raised" THEN r1
       ELSE [r2 EXCEPT !.ret = IF r2.status = "returned"
                                THEN r1.ret + r2.ret ELSE NoReturn,
                       !.planned = r1.planned + r2.planned]

-----------------------------------------------------------------------------
(* The state machine *)

Call(op, f, threshold, r, written, result) ==
    [op |-> op, filters |-> f, threshold |-> threshold,
     status |-> r.status, error |-> r.error, ret |-> r.ret,
     rejected |-> r.rejected, planned |-> r.planned,
     written |-> written, result |-> result]

Returned(n) ==
    [status |-> "returned", error |-> "", ret |-> n, rejected |-> 0,
     planned |-> 0]

PassOps == {"identify_relationships", "associate_evidence_with_docket_events",
            "build_timeline"}

\* no pass in flight
NoPass ==
    [op |-> "", threshold |-> 0, pending |-> <<>>, written |-> 0, planned |-> 0,
     raises |-> FALSE, error |-> ""]

\* no record held
NoRecord == [id |-> "", data |-> Blank("", "", NoTimestamp), shared |-> FALSE]

InitStore ==
    /\ evidence = <<>>
    /\ relationships = <<>>
    /\ lastCall = Call("init", NoFilters, 0, Returned(0), 0, <<>>)
    /\ inserts = 0
    /\ passes = 0
    /\ projects = <<>>
    /\ held = NoRecord
    /\ running = NoPass

Init ==
    /\ InitStore
    /\ subject = <<>>
    /\ subjectText = <<>>
    /\ normalized = <<>>
    /\ normPc = "idle"

\* the writes of a pass the store may reject: none, or any one of them
RejectPoints(faulty, plan) == IF faulty THEN 0..Len(plan.writes) ELSE {0}

DocketFilter == [NoFilters EXCEPT !.type = "docket"]

\* EvidenceDatabase.insert_evidence_items(items)
InsertEvidenceItems ==
    /\ inserts < MaxInserts
    /\ \E items \in Batches :
          /\ evidence' = InsertAll(evidence, items)
          /\ lastCall' = Call("insert_evidence_items", NoFilters, 0,
                              Returned(Len(items)), 0, <<>>)
    /\ inserts' = inserts + 1
    /\ UNCHANGED <<relationships, passes>>
    /\ UNCHANGED appVars
    /\ UNCHANGED normVars

\* TimelineConstructor.identify_relationships(confidence_threshold)
IdentifyRelationships(faulty) ==
    /\ \E threshold \in Thresholds, all \in query_evidence(evidence, NoFilters) :
          \E rejectAt \in RejectPoints(faulty, IdentifyPlan(all, threshold)) :
             LET r == identify_relationships(relationships, all, threshold, rejectAt)
             IN /\ relationships' = r.table
                /\ lastCall' = Call("identify_relationships", NoFilters, threshold,
                                    r, Len(r.table) - Len(relationships), <<>>)
    /\ passes' = passes + 1
    /\ UNCHANGED <<evidence, inserts>>
    /\ UNCHANGED appVars
    /\ UNCHANGED normVars

\* TimelineConstructor.associate_evidence_with_docket_events()
AssociateEvidenceWithDocketEvents(faulty) ==
    /\ \E docket_events \in query_evidence(evidence, DocketFilter),
          all \in query_evidence(evidence, NoFilters) :
          \E rejectAt \in RejectPoints(faulty, DocketPlan(docket_events, all)) :
             LET r == associate_evidence_with_docket_events(
                          relationships, docket_events, all, rejectAt)
             IN /\ relationships' = r.table
                /\ lastCall' = Call("associate_evidence_with_docket_events",
                                    NoFilters, 0, r,
                                    Len(r.table) - Len(relationships), <<>>)
    /\ passes' = passes + 1
    /\ UNCHANGED <<evidence, inserts>>
    /\ UNCHANGED appVars
    /\ UNCHANGED normVars

\* TimeEntryApp.build_timeline()
BuildTimeline(faulty) ==
    /\ \E all1 \in query_evidence(evidence, NoFilters),
          docket_events \in query_evidence(evidence, DocketFilter),
          all2 \in query_evidence(evidence, NoFilters) :
          \E reject1 \in RejectPoints(faulty, IdentifyPlan(all1, DefaultThreshold)) :
          \E reject2 \in IF reject1 > 0 THEN {0}
                          ELSE RejectPoints(faulty, DocketPlan(docket_events, all2)) :
             LET r == build_timeline(relationships, all1, reject1,
                                     docket_events, all2, reject2)
             IN /\ relationships' = r.table
                /\ lastCall' = Call("build_timeline", NoFilters, DefaultThreshold,
                                    r, Len(r.table) - Len(relationships), <<>>)
    /\ passes' = passes + 1
    /\ UNCHANGED <<evidence, inserts>>
    /\ UNCHANGED appVars
    /\ UNCHANGED normVars

\* the store accepts every write
Identify == passes < MaxPasses /\ IdentifyRelationships(FALSE)
Associate == passes < MaxPasses /\ AssociateEvidenceWithDocketEvents(FALSE)
Build == passes < MaxPasses /\ BuildTimeline(FALSE)

Next ==
    \/ InsertEvidenceItems
    \/ Identify
    \/ Associate
    \/ Build

Spec == Init /\ [][Next]_vars

\* the store may reject a write
IdentifyFault == passes < MaxFaultPasses /\ IdentifyRelationships(TRUE)
AssociateFault == passes < MaxFaultPasses /\ AssociateEvidenceWithDocketEvents(TRUE)
BuildFault == passes < MaxFaultPasses /\ BuildTimeline(TRUE)

NextFault ==
    \/ InsertEvidenceItems
    \/ IdentifyFault
    \/ AssociateFault
    \/ BuildFault

SpecFault == Init /\ [][NextFault]_vars


-----------------------------------------------------------------------------
(* query_evidence called with filters *)

FilterTypes == {"", "email", "sms", "docket"}
FilterStarts == {NoBound, Base + 5, Base + Day}
FilterEnds == {NoBound, Base + 20, Base + 2 * Day}

Filters == [type : FilterTypes, start_date : FilterStarts, end_date : FilterEnds]

\* EvidenceDatabase.query_evidence(filters)
QueryEvidence ==
    /\ \E f \in Filters :
          \E result \in query_evidence(evidence, f) :
             lastCall' = Call("query_evidence", f, 0, Returned(Len(result)), 0,
                              result)
    /\ UNCHANGED <<evidence, relationships, inserts, passes>>
    /\ UNCHANGED appVars
    /\ UNCHANGED normVars

NextQuery ==
    \/ InsertEvidenceItems
    \/ QueryEvidence

SpecQuery == Init /\ [][NextQuery]_vars

-----------------------------------------------------------------------------
(* _normalize_email_subject applied to subjects built from prefixes *)

PrefixForms == { <<"R","e",":"," ">>, <<"R","E",":">>, <<"F","w","d",":"," ">>,
                 <<"f","w",":"," ">>, <<"F","W",":">>,
                 <<"R","e","s","p","o","n","s","e",":"," ">> }

Texts == { <<"X">>, TxUpdate, <<"r","e"," ","x">> }

PrefixLists == UNION {[1..n -> PrefixForms] : n \in 0..MaxPrefixes}

InitNorm ==
    /\ InitStore
    /\ \E ps \in PrefixLists, t \in Texts :
          /\ subject = Flatten(ps) \o t
          /\ subjectText = t
    /\ normalized = <<>>
    /\ normPc = "input"

NormalizeSubject ==
    /\ normPc = "input"
    /\ normalized' = _normalize_email_subject(subject)
    /\ normPc' = "done"
    /\ UNCHANGED <<subject, subjectText>>
    /\ UNCHANGED storeVars

NextNorm == NormalizeSubject

SpecNorm == InitNorm /\ [][NextNorm]_vars


-----------------------------------------------------------------------------
(* The web application (src/app.py): applying AI suggestions, contact       *)
(* updates, clear and restore, and the lookups of the evidence page         *)

\* a call that is given a record id
CallOn(op, id, r, result) ==
    [evidence_id |-> id] @@ Call(op, NoFilters, 0, r, 0, result)

\* rows of ai_relationship_suggestions (written from the AI's answer)
Suggestions ==
    { Edge("x1", "d1", "related", (8 * ConfScale) \div 10),
      Edge("e2", "e1", "reply_to", ConfScale),
      Edge("d1", "zz", "mentions", ConfScale \div 2) }

\* ids a request may name: stored ones and one that is not
RequestIds == {"e1", "e2", "d1", "x1", "zz"}

ContactNames == {"Ann"}

\* apply_suggestions: each selected suggestion becomes a relationship
ApplySuggestions ==
    /\ passes < MaxAppCalls
    /\ \E rel \in Suggestions :
          /\ relationships' = link_related_evidence(relationships, rel)
          /\ lastCall' = Call("apply_suggestions", NoFilters, 0, Returned(1), 1, <<>>)
    /\ passes' = passes + 1
    /\ UNCHANGED <<evidence, inserts>>
    /\ UNCHANGED appVars
    /\ UNCHANGED normVars

\* api_update_contact: fetch the record, set the contact, UPDATE evidence SET data
ApiUpdateContact ==
    /\ passes < MaxAppCalls
    /\ \E evidence_id \in RequestIds, contact_name \in ContactNames :
          LET fetched == get_evidence_by_id(evidence, evidence_id) IN
          IF ~fetched.found
          THEN /\ evidence' = evidence
               /\ lastCall' = CallOn("api_update_contact", evidence_id,
                                     [Returned(404) EXCEPT !.error = "Evidence not found"],
                                     <<>>)
          ELSE LET updated == [fetched.data EXCEPT !.contact = contact_name,
                                                   !.contact_email = ""]
               IN /\ evidence' = [evidence EXCEPT ![evidence_id].data = updated]
                  /\ lastCall' = CallOn("api_update_contact", evidence_id,
                                        Returned(200), <<updated>>)
    /\ passes' = passes + 1
    /\ UNCHANGED <<relationships, inserts>>
    /\ UNCHANGED appVars
    /\ UNCHANGED normVars

\* clear_project: DELETE FROM every project table
ClearProject ==
    /\ passes < MaxAppCalls
    /\ evidence' = <<>>
    /\ relationships' = <<>>
    /\ projects' = <<>>
    /\ lastCall' = Call("clear_project", NoFilters, 0, Returned(200), 0, <<>>)
    /\ passes' = passes + 1
    /\ UNCHANGED <<inserts, held, running>>
    /\ UNCHANGED normVars

\* restore_project: DELETE FROM every project table; nothing is read back
RestoreProject ==
    /\ passes < MaxAppCalls
    /\ evidence' = <<>>
    /\ relationships' = <<>>
    /\ projects' = <<>>
    /\ lastCall' = Call("restore_project", NoFilters, 0, Returned(200), 0, <<>>)
    /\ passes' = passes + 1
    /\ UNCHANGED <<inserts, held, running>>
    /\ UNCHANGED normVars

\* EvidenceDatabase.get_related_evidence(evidence_id)
GetRelatedEvidence ==
    /\ \E evidence_id \in RequestIds :
          LET result == get_related_evidence(evidence, relationships, evidence_id)
          IN lastCall' = CallOn("get_related_evidence", evidence_id,
                                Returned(Cardinality(result)), result)
    /\ UNCHANGED <<evidence, relationships, inserts, passes>>
    /\ UNCHANGED appVars
    /\ UNCHANGED normVars

BuildApp == passes < MaxAppCalls /\ BuildTimeline(FALSE)

NextApp ==
    \/ InsertEvidenceItems
    \/ BuildApp
    \/ ApplySuggestions
    \/ ApiUpdateContact
    \/ ClearProject
    \/ RestoreProject
    \/ GetRelatedEvidence

SpecApp == Init /\ [][NextApp]_vars

-----------------------------------------------------------------------------
(* suggest_projects called on a case file *)

EmailFilter == [NoFilters EXCEPT !.type = "email"]

\* EvidenceDatabase.insert_evidence_items(items), for the files of a case
InsertProjectItems ==
    /\ inserts < MaxInserts
    /\ \E items \in ProjectBatches :
          /\ evidence' = InsertAll(evidence, items)
          /\ lastCall' = Call("insert_evidence_items", NoFilters, 0,
                              Returned(Len(items)), 0, <<>>)
    /\ inserts' = inserts + 1
    /\ UNCHANGED <<relationships, passes>>
    /\ UNCHANGED appVars
    /\ UNCHANGED normVars

\* TimelineConstructor.suggest_projects()
SuggestProjects ==
    /\ \E docket_events \in query_evidence(evidence, DocketFilter),
          all_emails \in query_evidence(evidence, EmailFilter) :
          LET r == suggest_projects(docket_events, all_emails, projects) IN
          /\ projects' = r.projects
          /\ lastCall' = [docket_events |-> docket_events,
                          all_emails |-> all_emails,
                          repeated |-> lastCall.op = "suggest_projects"]
                         @@ Call("suggest_projects", NoFilters, 0,
                                 [status |-> r.status, error |-> r.error,
                                  ret |-> IF r.status = "returned"
                                          THEN Len(r.suggestions) ELSE NoReturn,
                                  rejected |-> 0, planned |-> 0],
                                 0, r.suggestions)
    /\ passes' = passes + 1
    /\ UNCHANGED <<evidence, relationships, inserts, held, running>>
    /\ UNCHANGED normVars

Suggest == passes < MaxSuggestCalls /\ SuggestProjects

NextSuggest ==
    \/ InsertProjectItems
    \/ Suggest

SpecSuggest == Init /\ [][NextSuggest]_vars

-----------------------------------------------------------------------------
(* A caller that keeps a fetched record and changes it *)

\* what a caller may do to a dict it holds: add a key, change one, delete one
Mutations == {"add_contact", "change_subject", "delete_body"}

Mutated(data, m) ==
    IF m = "add_contact" THEN [data EXCEPT !.contact = "Eve"]
    ELSE IF m = "change_subject" THEN [data EXCEPT !.subject = <<"X">>]
    ELSE [data EXCEPT !.body = <<>>]

\* EvidenceDatabase.get_evidence_by_id(evidence_id); the caller keeps the dict
GetEvidenceById ==
    /\ passes < MaxAppCalls
    /\ \E evidence_id \in RequestIds :
          LET fetched == get_evidence_by_id(evidence, evidence_id) IN
          /\ held' = IF fetched.found
                     THEN [id |-> evidence_id, data |-> fetched.data,
                           shared |-> fetched.shared]
                     ELSE NoRecord
          /\ lastCall' = CallOn("get_evidence_by_id", evidence_id,
                                Returned(IF fetched.found THEN 1 ELSE 0),
                                IF fetched.found THEN <<fetched.data>> ELSE <<>>)
    /\ passes' = passes + 1
    /\ UNCHANGED <<evidence, relationships, inserts, projects, running>>
    /\ UNCHANGED normVars

\* EvidenceDatabase.query_evidence(); the caller keeps the first or last dict
QueryAndHold ==
    /\ passes < MaxAppCalls
    /\ evidence # <<>>
    /\ \E result \in query_evidence(evidence, NoFilters) :
          \E k \in {1, Len(result)} :
             LET loaded == json_loads(result[k]) IN
             /\ held' = [id |-> result[k].id, data |-> loaded.data,
                         shared |-> loaded.shared]
             /\ lastCall' = CallOn("query_evidence", result[k].id,
                                   Returned(Len(result)), <<loaded.data>>)
    /\ passes' = passes + 1
    /\ UNCHANGED <<evidence, relationships, inserts, projects, running>>
    /\ UNCHANGED normVars

\* the caller changes the dict it holds; the store is touched only if the
\* dict is an object of the store
MutateHeld ==
    /\ held.id # ""
    /\ \E m \in Mutations :
          /\ Mutated(held.data, m) # held.data
          /\ held' = [held EXCEPT !.data = Mutated(held.data, m)]
          /\ evidence' = IF held.shared /\ held.id \in DOMAIN evidence
                         THEN [evidence EXCEPT ![held.id].data = Mutated(held.data, m)]
                         ELSE evidence
    /\ UNCHANGED <<relationships, lastCall, inserts, passes, projects, running>>
    /\ UNCHANGED normVars

NextFetch ==
    \/ InsertEvidenceItems
    \/ GetEvidenceById
    \/ QueryAndHold
    \/ MutateHeld
    \/ ApiUpdateContact

SpecFetch == Init /\ [][NextFetch]_vars

-----------------------------------------------------------------------------
(* The passes and suggest_projects on records with absent or null fields *)

\* EvidenceDatabase.insert_evidence_items(items), for incomplete records
InsertIncompleteItems ==
    /\ inserts < MaxInserts
    /\ \E items \in ShapeBatches :
          /\ evidence' = InsertAll(evidence, items)
          /\ lastCall' = Call("insert_evidence_items", NoFilters, 0,
                              Returned(Len(items)), 0, <<>>)
    /\ inserts' = inserts + 1
    /\ UNCHANGED <<relationships, passes>>
    /\ UNCHANGED appVars
    /\ UNCHANGED normVars

SuggestShape == passes < MaxPasses /\ SuggestProjects

NextShape ==
    \/ InsertIncompleteItems
    \/ Identify
    \/ Associate
    \/ SuggestShape

SpecShape == Init /\ [][NextShape]_vars

-----------------------------------------------------------------------------
(* The correlation engine on mail threads, duplicate message ids and calls *)

\* a thread: a reply older than its parent, a reply without timestamp, an
\* unresolved parent, three emails of one conversation, an sms carrying the
\* same conversation id in a chat of two, and a call shortly before
BatchReplies ==
    << Email("a1", Base + Day, "m1", "", <<>>, "c1", <<>>, <<>>),
       Email("a2", Base, "m2", "m1", <<"m1">>, "c1", <<>>, <<>>),
       Email("a3", NoTimestamp, "", "m1", <<"m1", " ", "m7", " ", "m2">>, "c1",
             <<>>, <<>>),
       Email("a4", Base + 2 * Day, "m4", "m7", <<"m7">>, "c2", <<>>, <<>>),
       [Sms("a5", Base + 1, "chatB", <<>>) EXCEPT !.conversation_id = "c1"],
       Sms("a6", Base + 6, "chatB", <<>>),
       PhoneCall("a7", Base - 10) >>

\* emails carrying a message id another email carries too
BatchDuplicates ==
    << Email("b1", Base + 3 * Day, "m1", "", <<>>, "", <<>>, <<>>),
       Email("b2", NoTimestamp, "m2", "", <<>>, "", <<>>, <<>>),
       Email("b3", Base + 3 * Day, "m1", "", <<>>, "c3", <<>>, <<>>),
       Email("b4", Base + Day, "", "m1", <<"m2">>, "c3", <<>>, <<>>) >>

\* a chat session with an unparsable timestamp, and a call before a message
BatchChatCalls ==
    << Sms("t1", Base + Day + 10, "chatA", <<>>),
       Sms("t2", BadTimestamp, "chatA", <<>>),
       PhoneCall("t3", Base + Day - 10) >>

EngineBatches == {BatchReplies, BatchDuplicates, BatchChatCalls, BatchCalls,
                  BatchThread}

\* EvidenceDatabase.insert_evidence_items(items), for the mail files
InsertEngineItems ==
    /\ inserts < MaxInserts
    /\ \E items \in EngineBatches :
          /\ evidence' = InsertAll(evidence, items)
          /\ lastCall' = Call("insert_evidence_items", NoFilters, 0,
                              Returned(Len(items)), 0, <<>>)
    /\ inserts' = inserts + 1
    /\ UNCHANGED <<relationships, passes>>
    /\ UNCHANGED appVars
    /\ UNCHANGED normVars

NextEngine ==
    \/ InsertEngineItems
    \/ Identify

SpecEngine == Init /\ [][NextEngine]_vars

-----------------------------------------------------------------------------
(* The docket linker at the bounds of its window and on memo-only matches *)

TxMotionOrder == TxMotion \o <<" ">> \o TxOrder

\* a docket with candidates on, just inside and just outside the bounds of
\* its window, a candidate without timestamp, a second docket inside the
\* window and a docket without timestamp
BatchWindow ==
    << Docket("w0", Base + 20 * Day, TxMotion, TxOrder),
       Email("w1", Base + 17 * Day, "", "", <<>>, "", TxMotion, TxOrder),
       Sms("w2", Base + 21 * Day, "", TxMotionOrder),
       Email("w3", Base + 17 * Day - 1, "", "", <<>>, "", TxMotion, TxOrder),
       Sms("w4", Base + 21 * Day + 1, "", TxMotionOrder),
       Email("w5", NoTimestamp, "", "", <<>>, "", TxMotion, TxOrder),
       Docket("w6", Base + 20 * Day + 1, TxMotion, TxMotionOrder),
       Docket("w7", BadTimestamp, TxMotion, TxOrder) >>

\* candidates that match the memo only, a phone call, and a docket without
\* event type, all at the time of a docket
BatchMemoOnly ==
    << Docket("v0", Base + 30 * Day, <<>>, TxOrder),
       Email("v1", Base + 30 * Day, "", "", <<>>, "", <<>>, TxOrder),
       Sms("v2", Base + 30 * Day + 1, "", TxMotionOrder),
       PhoneCall("v3", Base + 30 * Day + 2),
       Docket("v4", Base + 30 * Day + 3, TxHearing, TxOrder) >>

DocketBatches == {BatchDocket, BatchWindow, BatchMemoOnly, BatchCalls}

\* EvidenceDatabase.insert_evidence_items(items), for the docket files
InsertDocketItems ==
    /\ inserts < MaxInserts
    /\ \E items \in DocketBatches :
          /\ evidence' = InsertAll(evidence, items)
          /\ lastCall' = Call("insert_evidence_items", NoFilters, 0,
                              Returned(Len(items)), 0, <<>>)
    /\ inserts' = inserts + 1
    /\ UNCHANGED <<relationships, passes>>
    /\ UNCHANGED appVars
    /\ UNCHANGED normVars

NextDocket ==
    \/ InsertDocketItems
    \/ Associate

SpecDocket == Init /\ [][NextDocket]_vars

-----------------------------------------------------------------------------
(* A pass and clear_project as concurrent requests on the shared connection *)
(* (one sqlite3 connection used by every request thread): the pass reads    *)
(* its snapshot with one SELECT, then every link_related_evidence is a      *)
(* statement and a commit of its own, and the statements of another request *)
(* can run between two of them.                                             *)

RaceBatches == {BatchThread, BatchDocket}

\* EvidenceDatabase.insert_evidence_items(items), for the uploaded files
InsertRaceItems ==
    /\ inserts < MaxInserts
    /\ \E items \in RaceBatches :
          /\ evidence' = InsertAll(evidence, items)
          /\ lastCall' = Call("insert_evidence_items", NoFilters, 0,
                              Returned(Len(items)), 0, <<>>)
    /\ inserts' = inserts + 1
    /\ UNCHANGED <<relationships, passes>>
    /\ UNCHANGED appVars
    /\ UNCHANGED normVars

\* the pass a request has started: its snapshot is read, its writes are to come
Started(op, threshold, plan) ==
    [op |-> op, threshold |-> threshold, pending |-> plan.writes, written |-> 0,
     planned |-> Len(plan.writes), raises |-> plan.raises, error |-> plan.error]

\* identify_relationships: all_evidence = self.evidence_db.query_evidence()
StartIdentifyRelationships ==
    /\ running.op = ""
    /\ passes < MaxPasses
    /\ \E threshold \in Thresholds, all \in query_evidence(evidence, NoFilters) :
          running' = Started("identify_relationships", threshold,
                             IdentifyPlan(all, threshold))
    /\ passes' = passes + 1
    /\ UNCHANGED <<evidence, relationships, lastCall, inserts, projects, held>>
    /\ UNCHANGED normVars

\* associate_evidence_with_docket_events: its two query_evidence calls
StartAssociateEvidence ==
    /\ running.op = ""
    /\ passes < MaxPasses
    /\ \E docket_events \in query_evidence(evidence, DocketFilter),
          all \in query_evidence(evidence, NoFilters) :
          running' = Started("associate_evidence_with_docket_events", 0,
                             DocketPlan(docket_events, all))
    /\ passes' = passes + 1
    /\ UNCHANGED <<evidence, relationships, lastCall, inserts, projects, held>>
    /\ UNCHANGED normVars

\* the next link_related_evidence call of the pass in flight
LinkRelatedEvidence ==
    /\ running.op # ""
    /\ running.pending # <<>>
    /\ relationships' = link_related_evidence(relationships, Head(running.pending))
    /\ running' = [running EXCEPT !.pending = Tail(@), !.written = @ + 1]
    /\ UNCHANGED <<evidence, lastCall, inserts, passes, projects, held>>
    /\ UNCHANGED normVars

\* the pass in flight returns its count, or raises
ReturnFromPass ==
    /\ running.op # ""
    /\ running.pending = <<>>
    /\ lastCall' = Call(running.op, NoFilters, running.threshold,
                        [status |-> IF running.raises THEN "raised" ELSE "returned",
                         error |-> running.error,
                         ret |-> IF running.raises THEN NoReturn ELSE running.planned,
                         rejected |-> 0, planned |-> running.planned],
                        running.written, <<>>)
    /\ running' = NoPass
    /\ UNCHANGED <<evidence, relationships, inserts, passes, projects, held>>
    /\ UNCHANGED normVars

NextRace ==
    \/ InsertRaceItems
    \/ StartIdentifyRelationships
    \/ StartAssociateEvidence
    \/ LinkRelatedEvidence
    \/ ReturnFromPass
    \/ ClearProject

SpecRace == Init /\ [][NextRace]_vars

-----------------------------------------------------------------------------
(* Properties *)

\* the edges the latest call added to the relationship table
NewEdges ==
    SubSeq(relationships, Len(relationships) - lastCall.written + 1,
           Len(relationships))

EdgesOfType(edges, t) == SelectSeq(edges, LAMBDA e : e.relationship_type = t)

AfterPass == lastCall.op \in PassOps

Stored(id) == id \in DOMAIN evidence
TimestampOf(id) == evidence[id].timestamp

\* C1: after any sequence of insertions, correlation passes and docket
\* passes, every persisted edge has two distinct endpoints (no self-loop)
\* and both endpoints are ids of stored records.
C1_EdgesJoinDistinctStoredRecords ==
    \A k \in 1..Len(relationships) :
        LET e == relationships[k] IN
        /\ e.evidence_id_1 # e.evidence_id_2
        /\ Stored(e.evidence_id_1)
        /\ Stored(e.evidence_id_2)

\* C2: every edge written by identify_relationships or
\* associate_evidence_with_docket_events has a confidence in [0, 1],
\* whatever the evidence, the timestamps and the threshold.
C2_ConfidenceInUnitInterval ==
    \A k \in 1..Len(relationships) :
        /\ relationships[k].confidence >= 0
        /\ relationships[k].confidence <= ConfScale

\* C2 witness: a pass has written a subject edge with a confidence strictly
\* inside the interval and a call_followed_by edge at its lower end.
C2_Witness ==
    /\ AfterPass
    /\ \E k \in 1..Len(relationships) :
          /\ relationships[k].relationship_type = "subject"
          /\ relationships[k].confidence > ConfSubjectFloor
          /\ relationships[k].confidence < ConfScale
    /\ \E k \in 1..Len(relationships) :
          /\ relationships[k].relationship_type = "call_followed_by"
          /\ relationships[k].confidence = 0

\* C3: when the store rejects one edge write during a pass, that edge is
\* dropped and not counted, every other edge of the pass is written, and the
\* pass returns normally with the number of edges persisted.
C3_RejectedWriteDoesNotAbortPass ==
    (AfterPass /\ lastCall.rejected > 0) =>
        /\ lastCall.status = "returned"
        /\ lastCall.written = lastCall.planned - lastCall.rejected
        /\ lastCall.ret = lastCall.written

TimestampDependent ==
    {"subject", "chat_sequence", "call_followed_by", "related_to_docket"}

NoAbsentTimestampEndpoint(edges) ==
    \A k \in 1..Len(edges) :
        edges[k].relationship_type \in TimestampDependent =>
            /\ TimestampOf(edges[k].evidence_id_1) # NoTimestamp
            /\ TimestampOf(edges[k].evidence_id_2) # NoTimestamp

\* C4: a record without a timestamp never fails a pass: with every write
\* accepted, identify_relationships and associate_evidence_with_docket_events
\* complete and return a count, and no subject, chat_sequence,
\* call_followed_by or related_to_docket edge they write has an endpoint
\* without a timestamp.
C4_MissingTimestampNeverFailsPass ==
    (AfterPass /\ lastCall.rejected = 0) =>
        /\ lastCall.status = "returned"
        /\ lastCall.ret >= 0
        /\ NoAbsentTimestampEndpoint(NewEdges)


\* a step that is a pass which returned
PassReturns ==
    /\ passes' = passes + 1
    /\ lastCall'.op \in PassOps
    /\ lastCall'.status = "returned"

\* a pass that returned, run again with the same arguments right after
PassRepeats ==
    /\ PassReturns
    /\ lastCall.op = lastCall'.op
    /\ lastCall.threshold = lastCall'.threshold
    /\ lastCall.status = "returned"

\* C5: passes are purely additive: no step removes or changes an existing
\* edge; a pass that returns has appended as many edges as it returns, also
\* when the same edges are in the table already; and a pass repeated on the
\* unchanged store returns a count at least as large as the first.
C5_PassesAreAdditive ==
    [][ /\ Len(relationships') >= Len(relationships)
        /\ SubSeq(relationships', 1, Len(relationships)) = relationships
        /\ PassReturns =>
              Len(relationships') = Len(relationships) + lastCall'.ret
        /\ PassRepeats => lastCall'.ret >= lastCall.ret ]_vars

\* C5 witness: two correlation passes over one store have returned the same
\* positive count and the table holds the edges of both, each one twice.
C5_Witness ==
    /\ passes = 2
    /\ lastCall.op = "identify_relationships"
    /\ lastCall.ret > 0
    /\ Len(relationships) = 2 * lastCall.ret
    /\ \A k \in 1..lastCall.ret :
          relationships[k] = relationships[k + lastCall.ret]

SmsIds(session) ==
    {i \in DOMAIN evidence :
        evidence[i].type = "sms" /\ evidence[i].data.chat_session = session}

SessionIds ==
    {evidence[i].data.chat_session : i \in {j \in DOMAIN evidence :
        evidence[j].type = "sms" /\ evidence[j].data.chat_session # ""}}

\* the chat_sequence edges of one session form a path through all its
\* records in ascending timestamp order
IsSessionPath(edges, members) ==
    /\ Len(edges) = Cardinality(members) - 1
    /\ \A k \in 1..Len(edges) :
          /\ edges[k].evidence_id_2 \in members
          /\ edges[k].confidence = ConfScale
          /\ TimestampOf(edges[k].evidence_id_1) # NoTimestamp
          /\ TimestampOf(edges[k].evidence_id_1)
                <= TimestampOf(edges[k].evidence_id_2)
          /\ k < Len(edges) => edges[k].evidence_id_2 = edges[k + 1].evidence_id_1
    /\ members = {edges[k].evidence_id_1 : k \in 1..Len(edges)}
                 \cup {edges[k].evidence_id_2 : k \in 1..Len(edges)}
       \/ Cardinality(members) = 1

\* C6: for each SMS chat session with n records one correlation pass emits
\* exactly n-1 chat_sequence edges of confidence 1.0, the i-th joining the
\* i-th and (i+1)-th record in ascending timestamp order; no chat_sequence
\* edge joins records of different sessions or a record without session id.
C6_ChatSequenceIsPathPerSession ==
    (lastCall.op = "identify_relationships" /\ lastCall.rejected = 0) =>
        LET chat == EdgesOfType(NewEdges, "chat_sequence") IN
        /\ \A session \in SessionIds :
              IsSessionPath(
                  SelectSeq(chat, LAMBDA e : e.evidence_id_1 \in SmsIds(session)),
                  SmsIds(session))
        /\ \A k \in 1..Len(chat) :
              \E session \in SessionIds :
                 /\ chat[k].evidence_id_1 \in SmsIds(session)
                 /\ chat[k].evidence_id_2 \in SmsIds(session)

MinutesApart(e) ==
    Abs(TimestampOf(e.evidence_id_1) - TimestampOf(e.evidence_id_2))

BothTimestamps(e) ==
    /\ TimestampOf(e.evidence_id_1) # NoTimestamp
    /\ TimestampOf(e.evidence_id_2) # NoTimestamp

\* C7: no subject edge a pass writes joins emails more than 7 days apart, no
\* call_followed_by edge joins a call and a message more than 30 minutes
\* apart, and neither is written when an endpoint has no timestamp, for
\* every threshold.
C7_SubjectAndCallEdgesWithinWindow ==
    AfterPass =>
        \A k \in 1..Len(NewEdges) :
            LET e == NewEdges[k] IN
            /\ e.relationship_type = "subject" =>
                  BothTimestamps(e) /\ MinutesApart(e) <= 7 * Day
            /\ e.relationship_type = "call_followed_by" =>
                  BothTimestamps(e) /\ MinutesApart(e) <= 30

SameSubject(i, j) ==
    /\ evidence[i].type = "email" /\ evidence[j].type = "email"
    /\ evidence[i].data.subject # <<>> /\ evidence[j].data.subject # <<>>
    /\ _normalize_email_subject(evidence[i].data.subject)
          = _normalize_email_subject(evidence[j].data.subject)

\* C7 witness: a pass has written a subject edge and a call_followed_by edge
\* exactly 30 minutes long, over a store that also holds two emails of one
\* subject 7 days or more apart and a phone call without timestamp.
C7_Witness ==
    /\ AfterPass
    /\ \E k \in 1..Len(NewEdges) : NewEdges[k].relationship_type = "subject"
    /\ \E k \in 1..Len(NewEdges) :
          /\ NewEdges[k].relationship_type = "call_followed_by"
          /\ MinutesApart(NewEdges[k]) = 30
    /\ \E i, j \in DOMAIN evidence :
          /\ SameSubject(i, j)
          /\ TimestampOf(i) # NoTimestamp /\ TimestampOf(j) # NoTimestamp
          /\ TimestampOf(j) - TimestampOf(i) >= 7 * Day
    /\ \E i \in DOMAIN evidence :
          evidence[i].type = "phone_call" /\ TimestampOf(i) = NoTimestamp


StartsWithPrefix(s) == \E k \in 1..Len(prefixes) : StartsWith(s, prefixes[k])

\* C8: for a subject built from any sequence of the prefixes re:, fwd:, fw:,
\* response: followed by a text T, the normalized subject starts with none
\* of the prefixes, equals the normalization of T, and is a fixed point of
\* the normalization.
C8_NormalizeStripsEveryPrefix ==
    normPc = "done" =>
        /\ ~StartsWithPrefix(normalized)
        /\ normalized = _normalize_email_subject(subjectText)
        /\ _normalize_email_subject(normalized) = normalized

CountOfType(edges, t) == Len(EdgesOfType(edges, t))

\* the edges a step appends to the relationship table
Appended ==
    SubSeq(relationships', Len(relationships) + 1, Len(relationships'))

\* C9: with every write accepted, identify_relationships returns the number
\* of edges it added, associate_evidence_with_docket_events returns the
\* number of related_to_docket edges it added (and adds no other), and
\* build_timeline returns the sum of the two, which is the number of edges
\* the call added.
C9_PassReturnsNumberOfAddedEdges ==
    [][ (PassReturns /\ lastCall'.rejected = 0) =>
          /\ lastCall'.ret = Len(relationships') - Len(relationships)
          /\ lastCall'.op = "identify_relationships" =>
                CountOfType(Appended, "related_to_docket") = 0
          /\ lastCall'.op = "associate_evidence_with_docket_events" =>
                lastCall'.ret = CountOfType(Appended, "related_to_docket")
          /\ lastCall'.op = "build_timeline" =>
                lastCall'.ret = Len(Appended) ]_vars

\* C9 witness: build_timeline has returned a count made of correlation
\* edges and of related_to_docket edges.
C9_Witness ==
    /\ lastCall.op = "build_timeline"
    /\ lastCall.status = "returned"
    /\ CountOfType(NewEdges, "related_to_docket") > 0
    /\ CountOfType(NewEdges, "related_to_docket") < Len(NewEdges)
    /\ lastCall.ret = Len(NewEdges)

\* the filter of a query, in the words of the contract
Satisfies(id, f) ==
    LET ts == TimestampOf(id)
        hasStart == f.start_date # NoBound
        hasEnd == f.end_date # NoBound
    IN /\ f.type # "" => evidence[id].type = f.type
       /\ hasStart => (ts # NoTimestamp /\ f.start_date <= ts)
       /\ hasEnd => (ts # NoTimestamp /\ ts <= f.end_date)

-----------------------------------------------------------------------------
\* C11: the lookup of related evidence is undirected.  For any two distinct
\* stored records a and b, whatever edges were inserted and whichever of the
\* two is evidence_id_1, get_related_evidence(a) contains b exactly when
\* get_related_evidence(b) contains a; and the answer the latest lookup gave
\* for a contains b exactly when a lookup for b contains a.
C11_RelatedLookupIsUndirected ==
    /\ \A a \in DOMAIN evidence : \A b \in DOMAIN evidence :
          a # b =>
             (evidence[b].data \in get_related_evidence(evidence, relationships, a)
              <=> evidence[a].data \in get_related_evidence(evidence, relationships, b))
    /\ (lastCall.op = "get_related_evidence" /\ Stored(lastCall.evidence_id)) =>
          \A b \in DOMAIN evidence :
             b # lastCall.evidence_id =>
                (evidence[b].data \in lastCall.result
                 <=> evidence[lastCall.evidence_id].data
                        \in get_related_evidence(evidence, relationships, b))

\* C11 witness: a lookup for a stored record has answered with a record that
\* is linked to it only by an edge naming the looked-up record as evidence_id_2.
C11_Witness ==
    /\ lastCall.op = "get_related_evidence"
    /\ Stored(lastCall.evidence_id)
    /\ \E b \in DOMAIN evidence :
          /\ b # lastCall.evidence_id
          /\ evidence[b].data \in lastCall.result
          /\ \E k \in 1..Len(relationships) :
                /\ relationships[k].evidence_id_1 = b
                /\ relationships[k].evidence_id_2 = lastCall.evidence_id
          /\ \A k \in 1..Len(relationships) :
                ~(/\ relationships[k].evidence_id_1 = lastCall.evidence_id
                  /\ relationships[k].evidence_id_2 = b)

-----------------------------------------------------------------------------
\* suggest_projects has answered
AfterSuggest == lastCall.op = "suggest_projects" /\ lastCall.status = "returned"

SuggestionsOfKind(kind) == SelectSeq(lastCall.result, LAMBDA p : p.kind = kind)

\* the members of a suggestion are distinct and in ascending timestamp order,
\* records without timestamp first; it starts at its first member's timestamp
\* and ends at its last member's
WellOrdered(p) ==
    LET ids == p.evidence_ids IN
    /\ \A i \in 1..Len(ids) : \A j \in 1..Len(ids) : i # j => ids[i] # ids[j]
    /\ \A i \in 1..(Len(ids) - 1) : TimestampOf(ids[i]) <= TimestampOf(ids[i + 1])
    /\ \A i \in 1..Len(ids) :
          TimestampOf(ids[i]) = NoTimestamp =>
             \A j \in 1..i : TimestampOf(ids[j]) = NoTimestamp
    /\ p.start_date = TimestampOf(ids[1])
    /\ p.end_date = TimestampOf(ids[Len(ids)])
    /\ \A i \in 1..Len(ids) :
          /\ p.start_date <= TimestampOf(ids[i])
          /\ TimestampOf(ids[i]) <= p.end_date

MemberSet(p) == {p.evidence_ids[k] : k \in 1..Len(p.evidence_ids)}

SubjectGroup(key) ==
    {id \in DOMAIN evidence :
        /\ evidence[id].type = "email"
        /\ TruthyText(evidence[id].data.subject)
        /\ _normalize_email_subject(evidence[id].data.subject) = key}

SubjectKeys ==
    {_normalize_email_subject(evidence[id].data.subject) :
        id \in {i \in DOMAIN evidence : /\ evidence[i].type = "email"
                                        /\ TruthyText(evidence[i].data.subject)}}

CategoryMembers(keywords) ==
    {id \in DOMAIN evidence :
        /\ evidence[id].type = "docket"
        /\ \E k \in 1..Len(keywords) :
              Contains(Lower(evidence[id].data.event_type), keywords[k])}

\* C14: docket categories.  After suggest_projects has returned, each of the
\* categories motion, discovery, hearing, filing has exactly one suggestion
\* when some docket's lower-cased event type contains one of its keywords and
\* none otherwise; the members are all such dockets, each once (a docket of
\* several categories in each of them), in ascending timestamp order with the
\* dockets without timestamp first; the suggestion spans from its first
\* member's timestamp to its last member's, so start <= end.
C14_CategorySuggestedIffMatched ==
    AfterSuggest =>
       LET cats == SuggestionsOfKind("category") IN
       /\ \A c \in 1..Len(project_categories) :
             LET members == CategoryMembers(project_categories[c].keywords)
                 of == {k \in 1..Len(cats) :
                           cats[k].name = project_categories[c].category}
             IN IF members # {}
                THEN /\ Cardinality(of) = 1
                     /\ \A k \in of :
                           /\ MemberSet(cats[k]) = members
                           /\ Len(cats[k].evidence_ids) = Cardinality(members)
                           /\ WellOrdered(cats[k])
                           /\ (cats[k].start_date # NoTimestamp
                               /\ cats[k].end_date # NoTimestamp)
                              => cats[k].start_date <= cats[k].end_date
                ELSE of = {}
       /\ \A k \in 1..Len(cats) :
             \E c \in 1..Len(project_categories) :
                cats[k].name = project_categories[c].category

\* C14 witness: a docket belongs to two categories, a category has a member
\* without timestamp and members with one, and a docket belongs to none.
C14_Witness ==
    /\ AfterSuggest
    /\ \E id \in CategoryMembers(project_categories[1].keywords) :
          id \in CategoryMembers(project_categories[3].keywords)
    /\ \E k \in 1..Len(SuggestionsOfKind("category")) :
          LET p == SuggestionsOfKind("category")[k] IN
          /\ p.start_date = NoTimestamp
          /\ p.end_date # NoTimestamp
          /\ Len(p.evidence_ids) >= 3
    /\ \E id \in DOMAIN evidence :
          /\ evidence[id].type = "docket"
          /\ \A c \in 1..Len(project_categories) :
                id \notin CategoryMembers(project_categories[c].keywords)
    /\ \A k \in 1..Len(SuggestionsOfKind("category")) :
          SuggestionsOfKind("category")[k].name # KwDiscovery
       \/ Len(SuggestionsOfKind("category")[k].evidence_ids) = 1

-----------------------------------------------------------------------------
\* the docket pass has run to its end (alone or as the second half of
\* build_timeline)
AfterDocketPass ==
    /\ lastCall.op \in {"associate_evidence_with_docket_events", "build_timeline"}
    /\ lastCall.status = "returned"

\* needle occurs, case-insensitively, in the text of the candidate: subject
\* or body of an email, text of an sms
OccursIn(needle, c) ==
    /\ needle # <<>>
    /\ \/ /\ c.type = "email"
          /\ \/ Contains(Lower(c.subject), Lower(needle))
             \/ Contains(Lower(c.body), Lower(needle))
       \/ /\ c.type = "sms"
          /\ Contains(Lower(c.text), Lower(needle))

\* 0.5 + 0.3 + 0.2 * (1 - h/24), capped at 1.0, on the confidence scale
ExpectedRelevance(d, c) ==
    LET minutes == Abs(c.timestamp - d.timestamp)
        byType == IF OccursIn(d.event_type, c) THEN ConfScale \div 2 ELSE 0
        byMemo == IF OccursIn(d.memo, c) THEN (3 * ConfScale) \div 10 ELSE 0
        byTime == IF minutes <= 24 * 60
                  THEN (ConfScale * (24 * 60 - minutes)) \div (5 * 24 * 60)
                  ELSE 0
    IN Min(ConfScale, byType + byMemo + byTime)

InDocketWindow(d, c) ==
    /\ d.timestamp # NoTimestamp
    /\ c.timestamp # NoTimestamp
    /\ d.timestamp - 3 * Day <= c.timestamp
    /\ c.timestamp <= d.timestamp + Day

\* C15: relevance and linking.  After a docket pass, for every stored docket
\* d and every stored record c that is not a docket: when c lies in d's
\* window and its score (0.5 for the event type, 0.3 for the memo, up to 0.2
\* decaying over 24 hours, capped at 1.0) is at least 0.6, the pass has
\* written exactly one related_to_docket edge (d, c), whose confidence is the
\* score; otherwise it has written none.  Every qualifying candidate of a
\* docket is linked, and the pass writes no other related_to_docket edge.
C15_LinkedIffRelevanceAtLeastThreshold ==
    AfterDocketPass =>
       LET links == EdgesOfType(NewEdges, "related_to_docket") IN
       /\ \A k \in 1..Len(links) :
             /\ Stored(links[k].evidence_id_1)
             /\ Stored(links[k].evidence_id_2)
             /\ evidence[links[k].evidence_id_1].type = "docket"
             /\ evidence[links[k].evidence_id_2].type # "docket"
       /\ \A i \in DOMAIN evidence : \A j \in DOMAIN evidence :
             (evidence[i].type = "docket" /\ evidence[j].type # "docket") =>
                LET d == evidence[i].data
                    c == evidence[j].data
                    written == {k \in 1..Len(links) :
                                   /\ links[k].evidence_id_1 = i
                                   /\ links[k].evidence_id_2 = j}
                IN IF InDocketWindow(d, c)
                      /\ 10 * ExpectedRelevance(d, c) >= 6 * ConfScale
                   THEN /\ Cardinality(written) = 1
                        /\ \A k \in written :
                              links[k].confidence = ExpectedRelevance(d, c)
                   ELSE written = {}

\* C15 witness: a docket pass has linked two candidates to one docket, one of
\* them with a score of exactly 0.6, and has left out an email sent exactly
\* 24 hours before the docket that names only its event type (score 0.5).
C15_Witness ==
    /\ AfterDocketPass
    /\ \E i \in DOMAIN evidence :
          /\ evidence[i].type = "docket"
          /\ Cardinality({k \in 1..Len(NewEdges) :
                            /\ NewEdges[k].relationship_type = "related_to_docket"
                            /\ NewEdges[k].evidence_id_1 = i}) >= 2
          /\ \E k \in 1..Len(NewEdges) :
                /\ NewEdges[k].relationship_type = "related_to_docket"
                /\ NewEdges[k].evidence_id_1 = i
                /\ 10 * NewEdges[k].confidence = 6 * ConfScale
          /\ \E j \in DOMAIN evidence :
                /\ evidence[j].type = "email"
                /\ evidence[j].timestamp # NoTimestamp
                /\ evidence[j].timestamp = evidence[i].timestamp - 24 * 60
                /\ OccursIn(evidence[i].data.event_type, evidence[j].data)
                /\ ~OccursIn(evidence[i].data.memo, evidence[j].data)
                /\ 2 * ExpectedRelevance(evidence[i].data, evidence[j].data) = ConfScale
                /\ \A k \in 1..Len(NewEdges) :
                      ~(/\ NewEdges[k].relationship_type = "related_to_docket"
                        /\ NewEdges[k].evidence_id_2 = j)

-----------------------------------------------------------------------------
RelationshipTypes ==
    {"reply_to", "reference", "conversation", "subject", "chat_sequence",
     "call_followed_by", "related_to_docket"}

IsPrefix(s, t) == Len(s) <= Len(t) /\ SubSeq(t, 1, Len(s)) = s

\* C16: provenance of edges.  Every row of the relationship table has one of
\* the seven relationship types; a step that changes the table is either a
\* pass of the correlation engine or the docket linker that appends rows of
\* those types behind the rows already there, which stay as they are, or a
\* bulk clear that empties the table.
C16_EdgesOnlyFromEngineAndLinker ==
    [][ /\ \A k \in 1..Len(relationships') :
              relationships'[k].relationship_type \in RelationshipTypes
        /\ relationships' # relationships =>
              \/ /\ lastCall'.op \in PassOps
                 /\ IsPrefix(relationships, relationships')
              \/ /\ lastCall'.op \in {"clear_project", "restore_project"}
                 /\ relationships' = <<>> ]_vars

\* C17: the evidence store is append/update only.  Every step other than a
\* bulk project-clear keeps each stored record retrievable by
\* get_evidence_by_id; an insert of an item whose id is already stored
\* leaves one record for that id, holding the inserted data.
C17_RecordsStayUntilProjectClear ==
    [][ /\ lastCall'.op # "clear_project" =>
              \A id \in DOMAIN evidence : get_evidence_by_id(evidence', id).found
        /\ lastCall'.op = "insert_evidence_items" =>
              \A items \in Batches :
                 evidence' = InsertAll(evidence, items) =>
                    \A k \in 1..Len(items) :
                       get_evidence_by_id(evidence', items[k].id).data.id = items[k].id
      ]_vars

-----------------------------------------------------------------------------
\* a step in which the caller changed the record it holds
CallerMutation ==
    /\ held'.id = held.id
    /\ held'.data # held.data
    /\ lastCall' = lastCall

-----------------------------------------------------------------------------
\* the store holds a record with an absent (default) or null expected field
IncompleteRecords ==
    {id \in DOMAIN evidence :
        LET r == evidence[id].data IN
        \/ r.type = "email" /\ (r.subject \in {<<>>, NullText}
                                \/ r.body \in {<<>>, NullText}
                                \/ r.message_id = "" \/ r.conversation_id = "")
        \/ r.type = "sms" /\ (r.text \in {<<>>, NullText} \/ r.chat_session = "")
        \/ r.type = "docket" /\ (r.event_type \in {<<>>, NullText}
                                 \/ r.memo \in {<<>>, NullText})}

\* C18: absent fields are never fatal.  On a store holding records with an
\* absent, empty or null subject, body, text, memo, event type, session id,
\* message id or conversation id, identify_relationships,
\* associate_evidence_with_docket_events and suggest_projects return; none of
\* them raises.
C18_MissingFieldNeverRaises ==
    (lastCall.op \in PassOps \cup {"suggest_projects"} /\ IncompleteRecords # {})
       => lastCall.status = "returned"

-----------------------------------------------------------------------------
\* the correlation engine has written its email edges (alone or as the first
\* half of build_timeline)
AfterCorrelation == lastCall.op \in {"identify_relationships", "build_timeline"}

\* max(0.5, 1 - days/7) on the confidence scale, for a difference in minutes
ExpectedSubjectConfidence(minutes) ==
    Max(ConfScale \div 2, ConfScale - (ConfScale * minutes) \div (7 * Day))

\* C20: subject linking.  After a correlation pass with any threshold, for
\* every two distinct stored emails with the same normalized subject, the
\* pass has written a subject edge between them exactly when both have a
\* timestamp, the timestamps are at most 7 days apart and
\* max(0.5, 1 - days/7) reaches the threshold; each such edge carries that
\* confidence.
C20_SubjectEdgeIffWithinSevenDays ==
    AfterCorrelation =>
       LET links == EdgesOfType(NewEdges, "subject") IN
       \A i \in DOMAIN evidence : \A j \in DOMAIN evidence :
          (i # j /\ SameSubject(i, j)) =>
             LET between == {k \in 1..Len(links) :
                                \/ /\ links[k].evidence_id_1 = i
                                   /\ links[k].evidence_id_2 = j
                                \/ /\ links[k].evidence_id_1 = j
                                   /\ links[k].evidence_id_2 = i}
                 minutes == Abs(TimestampOf(i) - TimestampOf(j))
             IN IF /\ TimestampOf(i) # NoTimestamp
                   /\ TimestampOf(j) # NoTimestamp
                   /\ minutes <= 7 * Day
                   /\ ExpectedSubjectConfidence(minutes) >= lastCall.threshold
                THEN /\ between # {}
                     /\ \A k \in between :
                           links[k].confidence = ExpectedSubjectConfidence(minutes)
                ELSE between = {}

-----------------------------------------------------------------------------
\* identify_relationships has run (its email edges are written before
\* anything that can stop it)
AfterIdentify == lastCall.op = "identify_relationships"

Emails == {i \in DOMAIN evidence : evidence[i].type = "email"}

\* the stored emails carrying a message id
Carriers(mid) == {a \in Emails : evidence[a].data.message_id = mid}

\* the positions, among the edges of one type the pass wrote, of those
\* arriving at a record
EdgesInto(t, b) ==
    LET links == EdgesOfType(NewEdges, t) IN
    {k \in 1..Len(links) : links[k].evidence_id_2 = b}

\* C21: reply chain.  After one correlation pass, every email whose
\* in_reply_to is the message id of a stored email has received exactly one
\* reply_to edge, from an email carrying that id to itself, with confidence
\* 1.0, whatever the two timestamps are; an email with an empty in_reply_to
\* has received none.
C21_OneReplyEdgePerResolvedReply ==
    AfterIdentify =>
       LET links == EdgesOfType(NewEdges, "reply_to") IN
       \A b \in Emails :
          LET irt == evidence[b].data.in_reply_to
              into == EdgesInto("reply_to", b)
          IN /\ (irt # "" /\ Carriers(irt) # {}) =>
                   /\ Cardinality(into) = 1
                   /\ \A k \in into :
                         /\ links[k].evidence_id_1 \in Carriers(irt)
                         /\ links[k].confidence = ConfReply
             /\ irt = "" => into = {}

\* C21 witness: one pass has linked a reply that is older than its parent
\* and a reply without timestamp to the same parent, and nothing to the
\* parent itself.
C21_Witness ==
    /\ AfterIdentify
    /\ DOMAIN evidence = {BatchReplies[k].id : k \in 1..Len(BatchReplies)}
    /\ TimestampOf("a2") < TimestampOf("a1")
    /\ TimestampOf("a3") = NoTimestamp
    /\ \E k \in 1..Len(NewEdges) : NewEdges[k] = Edge("a1", "a2", "reply_to", ConfReply)
    /\ \E k \in 1..Len(NewEdges) : NewEdges[k] = Edge("a1", "a3", "reply_to", ConfReply)
    /\ EdgesInto("reply_to", "a1") = {}
    /\ EdgesInto("reply_to", "a4") = {}

-----------------------------------------------------------------------------
\* the ids of a references list that resolve, as positions of the split list
ResolvingRefs(b) ==
    LET ref_ids == Split(evidence[b].data.references) IN
    {k \in 1..Len(ref_ids) : Carriers(ref_ids[k]) # {}}

\* a record with its unresolved in_reply_to and reference ids taken out
Scrubbed(all, item) ==
    [item EXCEPT
        !.in_reply_to = IF HasMessageId(all, item.in_reply_to)
                        THEN item.in_reply_to ELSE "",
        !.references = SelectSeq(item.references,
                           LAMBDA x : IsSpace(x) \/ HasMessageId(all, x))]

ScrubbedList(all) == [k \in 1..Len(all) |-> Scrubbed(all, all[k])]

HasUnresolvedId ==
    \E b \in Emails :
       \/ evidence[b].data.in_reply_to # "" /\ Carriers(evidence[b].data.in_reply_to) = {}
       \/ Cardinality(ResolvingRefs(b)) < Len(Split(evidence[b].data.references))

\* C22: reference chain and unresolved ids.  After one correlation pass
\* every email has received one reference edge of confidence 0.9 per id of
\* its references list that resolves, each from an email carrying such an id;
\* an in_reply_to that does not resolve has produced no reply_to edge; the
\* pass has not been stopped by an unresolved id, and the edges it wrote are
\* the ones it writes when the unresolved ids are removed from the records.
C22_ReferenceEdgePerResolvedId ==
    AfterIdentify =>
       LET links == EdgesOfType(NewEdges, "reference") IN
       /\ \A b \in Emails :
             LET ref_ids == Split(evidence[b].data.references)
                 irt == evidence[b].data.in_reply_to
                 into == EdgesInto("reference", b)
             IN /\ Cardinality(into) = Cardinality(ResolvingRefs(b))
                /\ \A k \in into :
                      /\ links[k].confidence = ConfReference
                      /\ \E r \in ResolvingRefs(b) :
                            links[k].evidence_id_1 \in Carriers(ref_ids[r])
                /\ \A r \in ResolvingRefs(b) :
                      \E k \in into : links[k].evidence_id_1 \in Carriers(ref_ids[r])
                /\ (irt # "" /\ Carriers(irt) = {}) => EdgesInto("reply_to", b) = {}
       /\ lastCall.status = "raised" => lastCall.error = "TypeError"
       /\ \E all \in query_evidence(evidence, NoFilters) :
             NewEdges = IdentifyPlan(ScrubbedList(all), lastCall.threshold).writes

\* C22 witness: a pass has returned over a thread in which one email lists a
\* resolving id, an unresolved id and another resolving id, and another email
\* has an unresolved in_reply_to and an unresolved reference.
C22_Witness ==
    /\ AfterIdentify /\ lastCall.status = "returned"
    /\ HasUnresolvedId
    /\ "a3" \in Emails /\ "a4" \in Emails
    /\ Split(evidence["a3"].data.references) = <<"m1", "m7", "m2">>
    /\ Cardinality(EdgesInto("reference", "a3")) = 2
    /\ \E k \in 1..Len(NewEdges) :
          NewEdges[k] = Edge("a2", "a3", "reference", ConfReference)
    /\ EdgesInto("reference", "a4") = {}
    /\ EdgesInto("reply_to", "a4") = {}

-----------------------------------------------------------------------------
ConversationOf(i) == evidence[i].data.conversation_id

\* the positions, among the edges of one type the pass wrote, of those
\* going from one record to another
EdgesFromTo(t, a, b) ==
    LET links == EdgesOfType(NewEdges, t) IN
    {k \in 1..Len(links) : links[k].evidence_id_1 = a /\ links[k].evidence_id_2 = b}

\* C23: conversation linking.  After one correlation pass a conversation
\* edge joins two records exactly when they are distinct emails with the same
\* non-empty conversation id, and every conversation edge has confidence 0.9.
C23_ConversationEdgeIffSameConversation ==
    AfterIdentify =>
       LET links == EdgesOfType(NewEdges, "conversation") IN
       /\ \A i \in DOMAIN evidence : \A j \in DOMAIN evidence :
             (EdgesFromTo("conversation", i, j) # {})
                <=> /\ i # j
                    /\ i \in Emails /\ j \in Emails
                    /\ ConversationOf(i) # ""
                    /\ ConversationOf(i) = ConversationOf(j)
       /\ \A k \in 1..Len(links) :
             /\ links[k].confidence = ConfConversation
             /\ Stored(links[k].evidence_id_1) /\ Stored(links[k].evidence_id_2)

\* C23 witness: a pass over three emails of one conversation, an email alone
\* in another conversation, an email without conversation id and an sms that
\* carries the conversation id of the three: the three are linked, the
\* others are not.
C23_Witness ==
    /\ AfterIdentify
    /\ {"a1", "a2", "a3", "a4", "a5", "b1"} \subseteq DOMAIN evidence
    /\ ConversationOf("a5") = ConversationOf("a1") /\ evidence["a5"].type = "sms"
    /\ ConversationOf("a4") = "c2" /\ ConversationOf("b1") = ""
    /\ EdgesFromTo("conversation", "a1", "a2") # {}
    /\ EdgesFromTo("conversation", "a3", "a1") # {}
    /\ EdgesFromTo("conversation", "a1", "a5") = {}
    /\ EdgesFromTo("conversation", "a1", "a4") = {}
    /\ \A i \in DOMAIN evidence : EdgesFromTo("conversation", "b1", i) = {}

-----------------------------------------------------------------------------
\* 1 - d/30 on the confidence scale
ExpectedCallConfidence(d) == ConfScale - (ConfScale * d) \div 30

\* a message that follows a call within half an hour
FollowsCall(i, j, threshold) ==
    /\ evidence[i].type = "phone_call"
    /\ TimestampOf(i) # NoTimestamp
    /\ evidence[j].type \in {"email", "sms"}
    /\ TimestampOf(j) # NoTimestamp
    /\ TimestampOf(j) > TimestampOf(i)
    /\ TimestampOf(j) - TimestampOf(i) <= 30
    /\ ExpectedCallConfidence(TimestampOf(j) - TimestampOf(i)) >= threshold

\* C24: call followed by.  After one correlation pass a call_followed_by
\* edge (call, message) has been written exactly when the first record is a
\* phone call with a timestamp, the second an email or sms with a strictly
\* later timestamp, the difference d in minutes is at most 30 and
\* 1 - d/30 reaches the threshold; the confidence of the edge is 1 - d/30.
C24_CallEdgeIffMessageWithinHalfHour ==
    AfterIdentify =>
       LET links == EdgesOfType(NewEdges, "call_followed_by") IN
       \A i \in DOMAIN evidence : \A j \in DOMAIN evidence :
          /\ (EdgesFromTo("call_followed_by", i, j) # {})
                <=> FollowsCall(i, j, lastCall.threshold)
          /\ \A k \in EdgesFromTo("call_followed_by", i, j) :
                links[k].confidence =
                   ExpectedCallConfidence(TimestampOf(j) - TimestampOf(i))

\* the formula of C24 restricted to the passes that returned
CallEdgesOfReturnedPass ==
    lastCall.status = "returned" => C24_CallEdgeIffMessageWithinHalfHour

-----------------------------------------------------------------------------
DocketLinks == EdgesOfType(relationships, "related_to_docket")

LinkedToDocket(d, c) ==
    \E k \in 1..Len(DocketLinks) :
        DocketLinks[k].evidence_id_1 = d /\ DocketLinks[k].evidence_id_2 = c

\* C25: docket window.  Every related_to_docket edge goes from a docket with
\* a timestamp ts to a record that is not a docket and whose timestamp t
\* satisfies ts - 3 days <= t <= ts + 1 day; a docket without timestamp and
\* a candidate without timestamp take part in no such edge.
C25_DocketLinksStayInWindow ==
    \A k \in 1..Len(DocketLinks) :
        LET d == DocketLinks[k].evidence_id_1
            c == DocketLinks[k].evidence_id_2
        IN /\ Stored(d) /\ Stored(c)
           /\ evidence[d].type = "docket"
           /\ evidence[c].type # "docket"
           /\ TimestampOf(d) # NoTimestamp
           /\ TimestampOf(c) # NoTimestamp
           /\ TimestampOf(d) - 3 * Day <= TimestampOf(c)
           /\ TimestampOf(c) <= TimestampOf(d) + Day

\* C25 witness: a docket pass has linked the candidates lying exactly 3 days
\* before and exactly 1 day after a docket, and has linked neither the ones a
\* minute further out, nor the one without timestamp, nor the docket inside
\* the window, nor anything to the docket without timestamp.
C25_Witness ==
    /\ AfterDocketPass
    /\ {"w0", "w1", "w2", "w3", "w4", "w5", "w6", "w7"} \subseteq DOMAIN evidence
    /\ TimestampOf("w1") = TimestampOf("w0") - 3 * Day
    /\ TimestampOf("w2") = TimestampOf("w0") + Day
    /\ TimestampOf("w5") = NoTimestamp /\ TimestampOf("w7") = NoTimestamp
    /\ LinkedToDocket("w0", "w1") /\ LinkedToDocket("w0", "w2")
    /\ ~LinkedToDocket("w0", "w3") /\ ~LinkedToDocket("w0", "w4")
    /\ ~LinkedToDocket("w0", "w5") /\ ~LinkedToDocket("w0", "w6")
    /\ \A c \in DOMAIN evidence : ~LinkedToDocket("w7", c)

-----------------------------------------------------------------------------
\* C28: every related_to_docket edge joins a docket with a non-empty event
\* type to an email or sms whose text (subject or body, or sms text)
\* contains that event type case-insensitively: a phone call, a record that
\* matches only the memo, and any candidate of a docket without event type
\* are never linked.
C28_DocketLinkNeedsEventTypeMatch ==
    \A k \in 1..Len(DocketLinks) :
        LET d == DocketLinks[k].evidence_id_1
            c == DocketLinks[k].evidence_id_2
        IN /\ Stored(d) /\ Stored(c)
           /\ evidence[d].data.event_type # <<>>
           /\ evidence[c].type \in {"email", "sms"}
           /\ OccursIn(evidence[d].data.event_type, evidence[c].data)

\* C28 witness: a docket pass has run over a docket without event type whose
\* memo occurs in an email of the very same time (memo 0.3 + time 0.2), a
\* phone call and a memo-only sms next to a docket with event type, and a
\* docket whose event type occurs in an email: only the last pair is linked.
C28_Witness ==
    /\ AfterDocketPass
    /\ {"v0", "v1", "v2", "v3", "v4", "d1", "x1", "x3"} \subseteq DOMAIN evidence
    /\ evidence["v0"].data.event_type = <<>>
    /\ OccursIn(evidence["v0"].data.memo, evidence["v1"].data)
    /\ TimestampOf("v1") = TimestampOf("v0")
    /\ OccursIn(evidence["v4"].data.memo, evidence["v2"].data)
    /\ ~OccursIn(evidence["v4"].data.event_type, evidence["v2"].data)
    /\ LinkedToDocket("d1", "x1")
    /\ \A c \in DOMAIN evidence : ~LinkedToDocket("v0", c) /\ ~LinkedToDocket("v4", c)
    /\ \A d \in DOMAIN evidence : ~LinkedToDocket(d, "v3") /\ ~LinkedToDocket(d, "x3")

-----------------------------------------------------------------------------
\* the pass stopped while computing (the store rejected nothing)
StoppedInCompute ==
    /\ AfterIdentify
    /\ lastCall.status = "raised"
    /\ lastCall.rejected = 0

\* C26: compute, then write.  A correlation pass that stops while it computes
\* its edges has called link_related_evidence for none of them: it leaves the
\* relationship table as it found it.
C26_StoppedPassWritesNothing ==
    StoppedInCompute => lastCall.written = 0

-----------------------------------------------------------------------------
SymmetricTypes == {"conversation", "subject"}
DirectedTypes == {"reply_to", "reference", "chat_sequence", "call_followed_by"}

\* the emails of one conversation
ConversationMembers(c) == {i \in Emails : ConversationOf(i) = c}

ConversationIds == {ConversationOf(i) : i \in Emails} \ {""}

\* the conversation edges the pass wrote inside one conversation
ConversationEdgeCount(c) ==
    Len(SelectSeq(EdgesOfType(NewEdges, "conversation"),
                  LAMBDA e : e.evidence_id_1 \in ConversationMembers(c)))

-----------------------------------------------------------------------------
MessageIds == {evidence[i].data.message_id : i \in Emails} \ {""}

\* an email that can be the last carrier of a message id in a list fetched in
\* ascending order of timestamp (NULL first)
LastCarriers(mid) ==
    {p \in Carriers(mid) : \A q \in Carriers(mid) : TimestampOf(q) <= TimestampOf(p)}

\* the emails whose in_reply_to resolves
ResolvedReplies ==
    {b \in Emails : evidence[b].data.in_reply_to # ""
                    /\ Carriers(evidence[b].data.in_reply_to) # {}}

\* C29: duplicate message ids.  After one correlation pass, for every message
\* id carried by stored emails there is one carrier, last in the
\* ascending-timestamp order, that is the first endpoint of every reply_to
\* edge and every reference edge the pass resolved through that id; the pass
\* wrote as many reply_to edges as there are emails whose in_reply_to
\* resolves, however many emails share a message id.
C29_LastCarrierOfMessageIdIsParent ==
    AfterIdentify =>
       LET replies == EdgesOfType(NewEdges, "reply_to")
           refs == EdgesOfType(NewEdges, "reference")
       IN /\ \A mid \in MessageIds :
                \E p \in LastCarriers(mid) :
                   /\ \A k \in 1..Len(replies) :
                         evidence[replies[k].evidence_id_2].data.in_reply_to = mid
                            => replies[k].evidence_id_1 = p
                   /\ \A k \in 1..Len(refs) :
                         refs[k].evidence_id_1 \in Carriers(mid)
                            => refs[k].evidence_id_1 = p
          /\ Len(replies) = Cardinality(ResolvedReplies)

\* C29 witness: a pass over three emails carrying one message id, the latest
\* two at the same time, and two carrying another, one of them without
\* timestamp: three replies and a reference resolved through the shared ids.
C29_Witness ==
    /\ AfterIdentify
    /\ Carriers("m1") = {"a1", "b1", "b3"}
    /\ LastCarriers("m1") = {"b1", "b3"}
    /\ Carriers("m2") = {"a2", "b2"} /\ LastCarriers("m2") = {"a2"}
    /\ ResolvedReplies = {"a2", "a3", "b4"}
    /\ Len(EdgesOfType(NewEdges, "reply_to")) = 3
    /\ EdgesFromTo("reference", "a2", "b4") # {}
    /\ EdgesFromTo("reply_to", "a1", "a2") = {}

-----------------------------------------------------------------------------
\* C30: a pass and a bulk clear interleaved.  Whatever the order in which the
\* statements of a correlation or docket pass and of clear_project run on
\* the shared connection, both endpoints of every edge of the relationship
\* table are ids of the evidence table.
C30_NoDanglingEdgeUnderClear ==
    \A k \in 1..Len(relationships) :
        /\ Stored(relationships[k].evidence_id_1)
        /\ Stored(relationships[k].evidence_id_2)

====
